---- MODULE Spec2Model ----
(***************************************************************************)
(* A model of osm_node: the chunked identifier buffer, the sort/merge      *)
(* engine (src/osm_node/utils.py), the two index writers                   *)
(* (src/osm_node/writers) and the two index readers (src/osm_node/index).  *)
(*                                                                         *)
(* Files of the temp directory are u64 record sequences (one element per   *)
(* 8-byte little-endian record); index files of the output directory are   *)
(* byte sequences.  Widths and sizes are scaled so that the state space is *)
(* finite: identifiers are 2*WORD_BITS bits wide, the program's size       *)
(* constants keep their names and carry scaled values.                     *)
(***************************************************************************)
EXTENDS Integers, Sequences, FiniteSets, TLC

\* ------------------------------------------------------------------ bounds
\* Largest identifier the sort/merge harness and the buffer harness write.
MaxId == 2
\* Most chunk files the harness hands to the sort/merge engine.
MaxChunks == 2
\* Most identifiers the harness writes over all chunk files of one call.
MaxTotal == 4

\* Most add calls made on the buffers of one run.
MaxAdds == 4
\* Largest flush_threshold a buffer is constructed with.
MaxThreshold == 3
\* Largest identifier added to a buffer.
MaxBufId == 1
\* Most identifiers of one written feature.
MaxIds == 3
\* Most identifiers of one count query.
MaxQuery == 2
\* Most node events of one scan.
MaxNodes == 3

Ids == 0 .. MaxId
BufIds == 0 .. MaxBufId

\* The feature names that have a buffer.
Features == {"a"}

\* -------------------------------------------------- constants of utils.py
\* utils.py:18, EXTERNAL_SORT_THRESHOLD = 10_000_000, scaled.
EXTERNAL_SORT_THRESHOLD == 2
\* utils.py:129, the output batch of merge_sorted_files (100_000), scaled.
MERGE_BATCH == 2
\* utils.py:46, chunk_size of iter_ids_from_file (1_000_000), scaled.
READ_CHUNK == 2
\* utils.py:98, last_id = None: a value that is no identifier.
NoId == -1
\* writers/roaring.py:57, the width of a word (32), scaled.
WORD_BITS == 1

\* ------------------------------------------------------------- sequences
Min(a, b) == IF a <= b THEN a ELSE b

Range(s) == {s[k] : k \in DOMAIN s}

IsAscending(s) == \A k \in 1 .. Len(s) - 1 : s[k] <= s[k + 1]

IsStrictlyAscending(s) == \A k \in 1 .. Len(s) - 1 : s[k] < s[k + 1]

\* s[from+1 .. from+n], cut at the end of s: a read of n records at offset from.
Slice(s, from, n) == SubSeq(s, from + 1, Min(from + n, Len(s)))

RECURSIVE InsertSorted(_, _)
InsertSorted(x, s) ==
    IF s = <<>> THEN <<x>>
    ELSE IF x <= Head(s) THEN <<x>> \o s
    ELSE <<Head(s)>> \o InsertSorted(x, Tail(s))

NpSortLeavesOrder(s) == s
\* ndarray.sort(): the same values in ascending order, duplicates kept.
RECURSIVE NpSort(_)
NpSort(s) == IF s = <<>> THEN <<>> ELSE InsertSorted(Head(s), NpSort(Tail(s)))

\* One pass over a sequence that drops every element equal to its predecessor.
RECURSIVE DropAdjacentDuplicates(_)
DropAdjacentDuplicates(s) ==
    IF Len(s) <= 1 THEN s
    ELSE IF s[1] = s[2] THEN DropAdjacentDuplicates(Tail(s))
    ELSE <<s[1]>> \o DropAdjacentDuplicates(Tail(s))

NpUniqueKeepsDuplicates(s) == NpSort(s)
\* np.unique: sort, then keep one of each run of equal values.
NpUnique(s) == DropAdjacentDuplicates(NpSort(s))

\* np.concatenate of a list of arrays.
RECURSIVE NpConcatenate(_)
NpConcatenate(ss) ==
    IF ss = <<>> THEN <<>> ELSE Head(ss) \o NpConcatenate(Tail(ss))

RECURSIVE SumSeq(_)
SumSeq(s) == IF s = <<>> THEN 0 ELSE Head(s) + SumSeq(Tail(s))

\* ------------------------------------------------------------ file system
\* A path is the file name inside the temp directory; fs maps every existing
\* file to its records.
\* The format {n:04d}: the decimal digits of n, zero-padded to four.
Pad4(n) ==
    IF n < 10 THEN "000" \o ToString(n)
    ELSE IF n < 100 THEN "00" \o ToString(n)
    ELSE IF n < 1000 THEN "0" \o ToString(n)
    ELSE ToString(n)

\* The chunk files the tests write and the output path they pass.
ChunkPath(n) == "chunk_" \o ToString(n) \o ".u64"
OutPath(name) == name \o "_output.u64"
\* utils.py:200
SortedPath(n) == "sorted_" \o Pad4(n) \o ".u64"
PartPathWithoutName(name, n) == "part" \o Pad4(n) \o ".u64"
\* utils.py:258, 273
PartPath(name, n) == name \o ".part" \o Pad4(n) \o ".u64"
\* cli.py:136
FeatureSortedPath(name) == name \o "_sorted.u64"

Exists(files, p) == p \in DOMAIN files

WriteFileSkipsEmpty(files, p, data) ==
    IF data = <<>> THEN files
    ELSE [q \in DOMAIN files \cup {p} |-> IF q = p THEN data ELSE files[q]]
WriteFile(files, p, data) ==
    [q \in DOMAIN files \cup {p} |-> IF q = p THEN data ELSE files[q]]

Unlink(files, p) == [q \in DOMAIN files \ {p} |-> files[q]]

UnlinkAllLeavesFiles(files, ps) == files
RECURSIVE UnlinkAll(_, _)
UnlinkAll(files, ps) ==
    IF ps = <<>> THEN files ELSE UnlinkAll(Unlink(files, Head(ps)), Tail(ps))

\* utils.py read_ids_from_file: a missing or zero-length file reads as empty.
read_ids_from_file(files, p) ==
    IF ~Exists(files, p) \/ Len(files[p]) = 0 THEN <<>> ELSE files[p]

\* ------------------------------------------------------------------ state
VARIABLES
    fs,                  \* the temp directory: path -> u64 records
    pc,                  \* position of the single thread of control
    given,               \* the contents of the chunk list when the engine was called
    chunk_paths,         \* sort_and_unique_chunks: chunk_paths
    output_path,         \* sort_and_unique_chunks / merge_sorted_files: output_path
    remove_chunks,       \* sort_and_unique_chunks: remove_chunks
    sort_path,           \* which branch the call took: "memory", "external", "merge"
    sort_i,              \* sort_and_unique_chunks: the loop index i (utils.py:197)
    sorted_chunk_paths,  \* sort_and_unique_chunks: sorted_chunk_paths
    input_paths,         \* merge_sorted_files: input_paths
    remove_inputs,       \* merge_sorted_files: remove_inputs
    heap,                \* merge_sorted_files: heap, as the set of its (value, index) keys
    iterators,           \* merge_sorted_files: one file_iterator per input
    out_buffer,          \* merge_sorted_files: buffer
    last_id,             \* merge_sorted_files: last_id
    count,               \* merge_sorted_files: count
    emitted,             \* history: the values the merge loop appended to its batch, in order
    ret,                 \* the value the call returned
    \* ChunkedIdBuffer, one per feature name (utils.py:211-292)
    buffer,              \* self.buffer
    chunk_count,         \* self.chunk_count
    total_count,         \* self.total_count
    flush_threshold,     \* self.flush_threshold, the same for every buffer
    added,               \* history: the identifiers passed to add, in call order
    finalize_calls,      \* history: finalize was called 0 times, once, or more (2)
    finalizing,          \* the feature whose finalize is running, "" when none
    paths_ret,           \* what get_chunk_paths returned, until the next call
    taken,               \* history: how many of the added identifiers earlier finalize calls consumed
    \* the caller that repeats a call on a rearranged chunk list
    round,               \* the number of the engine call in progress or last made
    first_result,        \* output and return value of the first call
    \* the output directory and the two loaded indexes
    u64_files,           \* feature -> bytes of <feature>.u64
    roar_files,          \* feature -> bytes of <feature>.roar
    feature_ids,         \* history: feature -> the canonical sequence written for it
    u64_index,           \* SortedU64Index: loaded, features (name -> array)
    roar_index,          \* RoaringIndex: loaded, features (name -> wrapper)
    result,              \* what the last query returned or raised
    damaged,             \* a damaged .roar file and what deserialize made of it
    \* OsmiumTaggingHandler (handler.py:13-86) and the build command (cli.py:62-165)
    nodes_processed,     \* self.nodes_processed
    nodes_matched,       \* self.nodes_matched
    events,              \* history: the node events handled, each an id and its tags
    build_pc,            \* position of build: "scan", "features", "finished", "failed"
    tmp_supplied,        \* build was given --tmp (cleanup_tmp is its negation)
    tmp_exists,          \* the temp directory exists
    fmt,                 \* build: fmt, "both" unless --format is given (cli.py:42)
    feature_i,           \* build: position of the loop over feature_specs, from 1
    build_chunks,        \* build: chunk_paths, as extract_features returned it
    stats                \* build: stats, as handler.get_statistics() returned it

engineVars ==
    <<fs, pc, given, chunk_paths, output_path, remove_chunks, sort_path, sort_i,
      sorted_chunk_paths, input_paths, remove_inputs, heap, iterators, out_buffer,
      last_id, count, emitted, ret>>

mergeVars ==
    <<input_paths, remove_inputs, heap, iterators, out_buffer, last_id, count, emitted>>

\* The locals of a call of the engine.
callVars ==
    <<given, chunk_paths, output_path, remove_chunks, sort_path, sort_i,
      sorted_chunk_paths, ret, mergeVars>>

bufVars ==
    <<buffer, chunk_count, total_count, flush_threshold, added, finalize_calls,
      finalizing, paths_ret, taken>>

callerVars == <<round, first_result>>

idxVars == <<u64_files, roar_files, feature_ids, u64_index, roar_index, result,
             damaged>>

buildVars ==
    <<nodes_processed, nodes_matched, events, build_pc, tmp_supplied, tmp_exists,
      fmt, feature_i, build_chunks, stats>>

vars == <<engineVars, bufVars, callerVars, buildVars, idxVars>>

\* --------------------------------------------- merge_sorted_files (67-149)
\* A file_iterator that has not started: nothing read, no block held.  off is
\* the file offset, block the records of the block in hand not yet yielded,
\* held the size of the block in hand (the array iter_ids_from_file yielded).
FreshIterator == [off |-> 0, block |-> <<>>, held |-> 0]

\* next(it) on a file_iterator over path p: the next record of the block in hand,
\* else the first record of the next block of READ_CHUNK records read at the file
\* offset; StopIteration (ok = FALSE) when the file is missing or exhausted.
IterNext(files, p, st) ==
    IF st.block # <<>>
    THEN [ok |-> TRUE, val |-> Head(st.block),
          st |-> [st EXCEPT !.block = Tail(st.block)]]
    ELSE LET data == IF Exists(files, p) THEN Slice(files[p], st.off, READ_CHUNK)
                     ELSE <<>>
         IN  IF data = <<>>
             THEN [ok |-> FALSE, val |-> NoId, st |-> [st EXCEPT !.held = 0]]
             ELSE [ok |-> TRUE, val |-> Head(data),
                   st |-> [off |-> st.off + Len(data), block |-> Tail(data),
                           held |-> Len(data)]]

HeapMinLastOfEquals(h) ==
    CHOOSE e \in h : \A o \in h : e[1] < o[1] \/ (e[1] = o[1] /\ e[2] >= o[2])
\* The entry heapq.heappop returns: the least (value, index) pair.
HeapMin(h) ==
    CHOOSE e \in h : \A o \in h : e[1] < o[1] \/ (e[1] = o[1] /\ e[2] <= o[2])

EmitsAlways(val, last) == TRUE
\* utils.py:123: a popped value is emitted unless it repeats the last emitted one.
Emits(val, last) == last = NoId \/ val # last

\* The call of merge_sorted_files(paths, out, rm) on the files `files`, up to the merge loop: the empty
\* list and the single file return at once, k >= 2 files set up the heap and open
\* the output.
MergeEnter(files, paths, out, rm) ==
    /\ input_paths' = paths
    /\ output_path' = out
    /\ remove_inputs' = rm
    /\ IF paths = <<>>
       THEN /\ fs' = WriteFile(files, out, <<>>)
            /\ ret' = 0
            /\ pc' = "done"
            /\ UNCHANGED <<heap, iterators, out_buffer, last_id, count, emitted>>
       ELSE IF Len(paths) = 1
       THEN LET unique_ids == NpUnique(read_ids_from_file(files, paths[1]))
                written == WriteFile(files, out, unique_ids)
            IN  /\ fs' = IF rm THEN Unlink(written, paths[1]) ELSE written
                /\ ret' = Len(unique_ids)
                /\ pc' = "done"
                /\ UNCHANGED <<heap, iterators, out_buffer, last_id, count, emitted>>
       ELSE LET first == [k \in 0 .. Len(paths) - 1 |->
                             IterNext(files, paths[k + 1], FreshIterator)]
            IN  /\ iterators' = [k \in 0 .. Len(paths) - 1 |-> first[k].st]
                /\ heap' = {<<first[k].val, k>> : k \in {j \in DOMAIN first : first[j].ok}}
                /\ fs' = WriteFile(files, out, <<>>)
                /\ out_buffer' = <<>>
                /\ last_id' = NoId
                /\ count' = 0
                /\ emitted' = <<>>
                /\ pc' = "merging"
                /\ UNCHANGED ret

BatchFullAbove(n) == n > MERGE_BATCH
\* utils.py:129: len(buffer) >= 100_000
BatchFull(n) == n >= MERGE_BATCH

\* One iteration of the merge loop (utils.py:119-138).
MergeStep ==
    /\ UNCHANGED <<bufVars, callerVars, buildVars, idxVars>>
    /\ pc = "merging"
    /\ heap # {}
    /\ LET top == HeapMin(heap)
           val == top[1]
           idx == top[2]
           emit == Emits(val, last_id)
           appended == IF emit THEN Append(out_buffer, val) ELSE out_buffer
           flushes == emit /\ BatchFull(Len(appended))
           nxt == IterNext(fs, input_paths[idx + 1], iterators[idx])
       IN  /\ last_id' = IF emit THEN val ELSE last_id
           /\ count' = IF emit THEN count + 1 ELSE count
           /\ emitted' = IF emit THEN Append(emitted, val) ELSE emitted
           /\ out_buffer' = IF flushes THEN <<>> ELSE appended
           /\ fs' = IF flushes
                    THEN WriteFile(fs, output_path, fs[output_path] \o appended)
                    ELSE fs
           /\ iterators' = [iterators EXCEPT ![idx] = nxt.st]
           /\ heap' = (heap \ {top}) \cup (IF nxt.ok THEN {<<nxt.val, idx>>} ELSE {})
    /\ UNCHANGED <<pc, given, chunk_paths, output_path, remove_chunks, sort_path,
                   sort_i, sorted_chunk_paths, input_paths, remove_inputs, ret>>

\* The end of merge_sorted_files (utils.py:140-149): the rest of the buffer is
\* written, the inputs are removed, the count is returned.
MergeFinish ==
    /\ UNCHANGED <<bufVars, callerVars, buildVars, idxVars>>
    /\ pc = "merging"
    /\ heap = {}
    /\ LET written == IF out_buffer # <<>>
                      THEN WriteFile(fs, output_path, fs[output_path] \o out_buffer)
                      ELSE fs
       IN  fs' = IF remove_inputs THEN UnlinkAll(written, input_paths) ELSE written
    /\ ret' = count
    /\ pc' = "done"
    /\ UNCHANGED <<given, chunk_paths, output_path, remove_chunks, sort_path, sort_i,
                   sorted_chunk_paths, input_paths, remove_inputs, heap, iterators,
                   out_buffer, last_id, count, emitted>>

\* ---------------------------------------- sort_and_unique_chunks (152-208)
SortKeepsChunks == FALSE
\* utils.py:156: remove_chunks defaults to True.
SortRemovesChunks == TRUE

\* utils.py:177: the records of the chunk files that exist.
TotalIds(files, paths) ==
    SumSeq([k \in 1 .. Len(paths) |->
               IF Exists(files, paths[k]) THEN Len(files[paths[k]]) ELSE 0])

TakesMemoryPathBelow(total) == total < EXTERNAL_SORT_THRESHOLD
\* utils.py:179
TakesMemoryPath(total) == total <= EXTERNAL_SORT_THRESHOLD

\* The call of sort_and_unique_chunks(paths, out, tmp_dir, rm) on the files `files`, up to its loop: the
\* empty list and the in-memory branch return at once.
SortEnter(files, paths, out, rm) ==
    /\ chunk_paths' = paths
    /\ remove_chunks' = rm
    /\ IF paths = <<>>
       THEN /\ fs' = WriteFile(files, out, <<>>)
            /\ ret' = 0
            /\ pc' = "done"
            /\ sort_path' = "empty"
            /\ output_path' = out
            /\ UNCHANGED <<sort_i, sorted_chunk_paths, mergeVars>>
       ELSE IF TakesMemoryPath(TotalIds(files, paths))
       THEN LET all_ids == NpConcatenate([k \in 1 .. Len(paths) |->
                                             read_ids_from_file(files, paths[k])])
                unique_ids == NpUnique(all_ids)
                written == WriteFile(files, out, unique_ids)
            IN  /\ fs' = IF rm THEN UnlinkAll(written, paths) ELSE written
                /\ ret' = Len(unique_ids)
                /\ pc' = "done"
                /\ sort_path' = "memory"
                /\ output_path' = out
                /\ UNCHANGED <<sort_i, sorted_chunk_paths, mergeVars>>
       ELSE /\ sorted_chunk_paths' = <<>>
            /\ sort_i' = 0
            /\ pc' = "sorting"
            /\ sort_path' = "external"
            /\ output_path' = out
            /\ fs' = files
            /\ UNCHANGED <<ret, mergeVars>>

\* One iteration of the loop over the chunks (utils.py:197-205).
SortChunk ==
    /\ UNCHANGED <<bufVars, callerVars, buildVars, idxVars>>
    /\ pc = "sorting"
    /\ sort_i < Len(chunk_paths)
    /\ LET chunk_path == chunk_paths[sort_i + 1]
           ids == NpSort(read_ids_from_file(fs, chunk_path))
           sorted_path == SortedPath(sort_i)
           written == WriteFile(fs, sorted_path, ids)
       IN  /\ fs' = IF remove_chunks THEN Unlink(written, chunk_path) ELSE written
           /\ sorted_chunk_paths' = Append(sorted_chunk_paths, sorted_path)
    /\ sort_i' = sort_i + 1
    /\ UNCHANGED <<pc, given, chunk_paths, output_path, remove_chunks, sort_path,
                   ret, mergeVars>>

\* utils.py:208: the sorted chunks are merged, and removed by the merge.
SortMerge ==
    /\ UNCHANGED <<bufVars, callerVars, buildVars, idxVars>>
    /\ pc = "sorting"
    /\ sort_i = Len(chunk_paths)
    /\ MergeEnter(fs, sorted_chunk_paths, output_path, TRUE)
    /\ UNCHANGED <<given, chunk_paths, remove_chunks, sort_path, sort_i,
                   sorted_chunk_paths>>

\* ----------------------------------------------------- the engine's caller
\* The caller writes chunk files (write_ids_to_file, utils.py:21-29) and then calls
\* the engine on the list of them.
Contents(files, paths) == [k \in 1 .. Len(paths) |-> files[paths[k]]]

NewChunk ==
    /\ UNCHANGED <<bufVars, callerVars, buildVars, idxVars>>
    /\ pc = "setup"
    /\ Len(chunk_paths) < MaxChunks
    /\ fs' = WriteFile(fs, ChunkPath(Len(chunk_paths)), <<>>)
    /\ chunk_paths' = Append(chunk_paths, ChunkPath(Len(chunk_paths)))
    /\ UNCHANGED <<pc, given, output_path, remove_chunks, sort_path, sort_i,
                   sorted_chunk_paths, ret, mergeVars>>

WriteId(v) ==
    /\ UNCHANGED <<bufVars, callerVars, buildVars, idxVars>>
    /\ pc = "setup"
    /\ chunk_paths # <<>>
    /\ TotalIds(fs, chunk_paths) < MaxTotal
    /\ LET p == chunk_paths[Len(chunk_paths)]
       IN  fs' = WriteFile(fs, p, Append(fs[p], v))
    /\ UNCHANGED <<pc, given, chunk_paths, output_path, remove_chunks, sort_path,
                   sort_i, sorted_chunk_paths, ret, mergeVars>>

\* The caller writes a sorted file: no identifier below the last one written.
WriteSortedId(v) ==
    /\ pc = "setup"
    /\ chunk_paths # <<>>
    /\ LET c == fs[chunk_paths[Len(chunk_paths)]]
       IN  IF c = <<>> THEN TRUE ELSE c[Len(c)] <= v
    /\ WriteId(v)

CallSort(rm) ==
    /\ UNCHANGED <<bufVars, callerVars, buildVars, idxVars>>
    /\ pc = "setup"
    /\ given' = Contents(fs, chunk_paths)
    /\ SortEnter(fs, chunk_paths, OutPath(""), rm)

CallMerge(rm) ==
    /\ UNCHANGED <<bufVars, callerVars, buildVars, idxVars>>
    /\ pc = "setup"
    /\ given' = Contents(fs, chunk_paths)
    /\ sort_path' = "merge"
    /\ MergeEnter(fs, chunk_paths, OutPath(""), rm)
    /\ UNCHANGED <<chunk_paths, remove_chunks, sort_i, sorted_chunk_paths>>

\* Rearrangements of a chunk list that generate every permutation of the list
\* and every permutation of the identifiers inside each chunk.
Rearrangements == {"rotate_list", "swap_list", "rotate_chunk", "swap_chunk"}

RotateSeq(s) == IF s = <<>> THEN s ELSE Tail(s) \o <<Head(s)>>

SwapFirstTwo(s) == IF Len(s) < 2 THEN s ELSE <<s[2], s[1]>> \o SubSeq(s, 3, Len(s))

Rearranged(g, chunks) ==
    IF chunks = <<>> THEN chunks
    ELSE IF g = "rotate_list" THEN RotateSeq(chunks)
    ELSE IF g = "swap_list" THEN SwapFirstTwo(chunks)
    ELSE IF g = "rotate_chunk" THEN <<RotateSeq(chunks[1])>> \o Tail(chunks)
    ELSE <<SwapFirstTwo(chunks[1])>> \o Tail(chunks)

\* The files `files` with the chunk files written anew from the list `chunks`.
RECURSIVE WriteChunks(_, _, _)
WriteChunks(files, chunks, n) ==
    IF chunks = <<>> THEN files
    ELSE WriteChunks(WriteFile(files, ChunkPath(n), Head(chunks)), Tail(chunks), n + 1)

\* After a call returned, the caller writes the same chunks rearranged by g and
\* calls sort_and_unique_chunks again with the same arguments.
CallAgain(g) ==
    /\ pc = "done"
    /\ round = 1
    /\ Rearranged(g, given) # given
    /\ round' = 2
    /\ first_result' = [out |-> fs[output_path], ret |-> ret]
    /\ given' = Rearranged(g, given)
    /\ SortEnter(WriteChunks(fs, Rearranged(g, given), 0), chunk_paths,
                 output_path, remove_chunks)
    /\ UNCHANGED <<bufVars, buildVars, idxVars>>

EngineInit ==
    /\ fs = <<>>
    /\ given = <<>>
    /\ chunk_paths = <<>>
    /\ output_path = OutPath("")
    /\ remove_chunks = TRUE
    /\ sort_path = "none"
    /\ sort_i = 0
    /\ sorted_chunk_paths = <<>>
    /\ input_paths = <<>>
    /\ remove_inputs = TRUE
    /\ heap = {}
    /\ iterators = <<>>
    /\ out_buffer = <<>>
    /\ last_id = NoId
    /\ count = 0
    /\ emitted = <<>>
    /\ ret = 0

\* ------------------------------------------- ChunkedIdBuffer (211-292)
\* flush (utils.py:253-263) on buffer b of feature f with chunk_count cc.
FlushOverwrites(files, f, b, cc) ==
    IF b = <<>>
    THEN [fs |-> files, buffer |-> b, chunk_count |-> cc]
    ELSE [fs |-> WriteFile(files, PartPath(f, 0), b), buffer |-> <<>>,
          chunk_count |-> cc + 1]
FlushWritesSorted(files, f, b, cc) ==
    IF b = <<>>
    THEN [fs |-> files, buffer |-> b, chunk_count |-> cc]
    ELSE [fs |-> WriteFile(files, PartPath(f, cc), NpUnique(b)), buffer |-> <<>>,
          chunk_count |-> cc + 1]
FlushResult(files, f, b, cc) ==
    IF b = <<>>
    THEN [fs |-> files, buffer |-> b, chunk_count |-> cc]
    ELSE [fs |-> WriteFile(files, PartPath(f, cc), b), buffer |-> <<>>,
          chunk_count |-> cc + 1]

ChunkPathsOfOneMore(f, cc) == [k \in 1 .. cc + 1 |-> PartPath(f, k - 1)]
ChunkPathsOfAllButLast(f, cc) == [k \in 1 .. cc - 1 |-> PartPath(f, k - 1)]
\* utils.py:272-275: the paths of the chunks 0 .. chunk_count-1.
ChunkPathsOf(f, cc) == [k \in 1 .. cc |-> PartPath(f, k - 1)]

BufferInit ==
    /\ buffer = [f \in Features |-> <<>>]
    /\ chunk_count = [f \in Features |-> 0]
    /\ total_count = [f \in Features |-> 0]
    /\ added = [f \in Features |-> <<>>]
    /\ finalize_calls = [f \in Features |-> 0]
    /\ finalizing = ""
    /\ paths_ret = <<>>
    /\ taken = [f \in Features |-> 0]

MustFlushAbove(n, threshold) == n > threshold
\* utils.py:250: len(self.buffer) >= self.flush_threshold
MustFlush(n, threshold) == n >= threshold

\* The add calls made so far, over all buffers.
AddsMade == Cardinality(UNION {{<<f, k>> : k \in 1 .. Len(added[f])} : f \in Features})

\* add (utils.py:241-251)
Add(f, v) ==
    /\ pc = "idle"
    /\ AddsMade < MaxAdds
    /\ LET appended == Append(buffer[f], v)
           r == IF MustFlush(Len(appended), flush_threshold)
                THEN FlushResult(fs, f, appended, chunk_count[f])
                ELSE [fs |-> fs, buffer |-> appended, chunk_count |-> chunk_count[f]]
       IN  /\ fs' = r.fs
           /\ buffer' = [buffer EXCEPT ![f] = r.buffer]
           /\ chunk_count' = [chunk_count EXCEPT ![f] = r.chunk_count]
    /\ total_count' = [total_count EXCEPT ![f] = @ + 1]
    /\ added' = [added EXCEPT ![f] = Append(@, v)]
    /\ paths_ret' = <<>>
    /\ UNCHANGED <<pc, given, chunk_paths, output_path, remove_chunks, sort_path,
                   sort_i, sorted_chunk_paths, ret, mergeVars, flush_threshold, taken,
                   finalize_calls, finalizing, callerVars, buildVars, idxVars>>

\* flush (utils.py:253-263)
Flush(f) ==
    /\ pc = "idle"
    /\ LET r == FlushResult(fs, f, buffer[f], chunk_count[f])
       IN  /\ fs' = r.fs
           /\ buffer' = [buffer EXCEPT ![f] = r.buffer]
           /\ chunk_count' = [chunk_count EXCEPT ![f] = r.chunk_count]
    /\ paths_ret' = <<>>
    /\ UNCHANGED <<pc, given, chunk_paths, output_path, remove_chunks, sort_path,
                   sort_i, sorted_chunk_paths, ret, mergeVars, total_count,
                   flush_threshold, taken, added, finalize_calls, finalizing, callerVars, buildVars, idxVars>>

\* get_chunk_paths (utils.py:265-275)
GetChunkPaths(f) ==
    /\ pc = "idle"
    /\ LET r == FlushResult(fs, f, buffer[f], chunk_count[f])
       IN  /\ fs' = r.fs
           /\ buffer' = [buffer EXCEPT ![f] = r.buffer]
           /\ chunk_count' = [chunk_count EXCEPT ![f] = r.chunk_count]
           /\ paths_ret' = ChunkPathsOf(f, r.chunk_count)
    /\ UNCHANGED <<pc, given, chunk_paths, output_path, remove_chunks, sort_path,
                   sort_i, sorted_chunk_paths, ret, mergeVars, total_count,
                   flush_threshold, taken, added, finalize_calls, finalizing, callerVars, buildVars, idxVars>>

FinalizeKeepsChunks == FALSE
\* finalize passes remove_chunks=True to sort_and_unique_chunks (utils.py:291).
FinalizeRemovesChunks == TRUE

\* finalize (utils.py:277-292): get_chunk_paths, then sort_and_unique_chunks on
\* the chunks with tmp_dir = self.tmp_dir and remove_chunks = True.
Finalize(f) ==
    /\ pc = "idle"
    /\ LET r == FlushResult(fs, f, buffer[f], chunk_count[f])
           paths == ChunkPathsOf(f, r.chunk_count)
       IN  /\ buffer' = [buffer EXCEPT ![f] = r.buffer]
           /\ chunk_count' = [chunk_count EXCEPT ![f] = r.chunk_count]
           /\ paths_ret' = <<>>
           /\ given' = [k \in 1 .. Len(paths) |-> read_ids_from_file(r.fs, paths[k])]
           /\ SortEnter(r.fs, paths, OutPath(f), FinalizeRemovesChunks)
    /\ finalize_calls' = [finalize_calls EXCEPT ![f] = Min(@ + 1, 2)]
    /\ finalizing' = f
    /\ UNCHANGED <<total_count, flush_threshold, taken, added, callerVars, buildVars, idxVars>>

\* finalize returns to its caller: the locals of the call are gone.
Return ==
    /\ pc = "done"
    /\ finalizing # ""
    /\ pc' = "idle"
    /\ finalizing' = ""
    /\ given' = <<>>
    /\ chunk_paths' = <<>>
    /\ output_path' = OutPath("")
    /\ remove_chunks' = TRUE
    /\ sort_path' = "none"
    /\ sort_i' = 0
    /\ sorted_chunk_paths' = <<>>
    /\ input_paths' = <<>>
    /\ remove_inputs' = TRUE
    /\ heap' = {}
    /\ iterators' = <<>>
    /\ out_buffer' = <<>>
    /\ last_id' = NoId
    /\ count' = 0
    /\ emitted' = <<>>
    /\ ret' = 0
    /\ taken' = [taken EXCEPT ![finalizing] = Len(added[finalizing])]
    /\ UNCHANGED <<fs, buffer, chunk_count, total_count, flush_threshold, added,
                   finalize_calls, paths_ret, callerVars, buildVars, idxVars>>

\* --------------------------------------------------- identifiers and bytes
\* An identifier is 2 * WORD_BITS bits wide; a word is what the native bitmap
\* addresses (0 .. 0xFFFFFFFF in the program).
WordSize == 2 ^ WORD_BITS
U32_MAX == WordSize - 1
U64 == 0 .. WordSize * WordSize - 1

\* ndarray.astype(np.uint32): the low word of the value.
AsU32(x) == x % WordSize

\* n.to_bytes(k, "little")
RECURSIVE ToBytesLE(_, _)
ToBytesLE(n, k) ==
    IF k = 0 THEN <<>> ELSE <<n % 256>> \o ToBytesLE(n \div 256, k - 1)

\* int.from_bytes(b, "little"); the empty slice gives 0.
RECURSIVE FromBytesLE(_)
FromBytesLE(b) == IF b = <<>> THEN 0 ELSE Head(b) + 256 * FromBytesLE(Tail(b))

\* b"ROAR64\x00\x00" (writers/roaring.py:71)
ROAR64_MAGIC == <<82, 79, 65, 82, 54, 52, 0, 0>>
ROAR64_TAG == <<82, 79, 65, 82, 54, 52>>

Max(S) == CHOOSE x \in S : \A y \in S : y <= x

\* The elements of a finite set of numbers in ascending order.
RECURSIVE SortedSeqOf(_)
SortedSeqOf(S) ==
    IF S = {} THEN <<>>
    ELSE LET m == CHOOSE x \in S : \A y \in S : x <= y
         IN  <<m>> \o SortedSeqOf(S \ {m})

\* ---------------------------------------- pyroaring.BitMap (the library)
\* A BitMap is the set of its words.  Its serialization is the cookie of the
\* portable format, the number of values and the values: it never starts with
\* the ROAR64 tag, and the empty bitmap serializes to a non-empty blob.
BITMAP_COOKIE == <<58, 48, 0, 0>>

RECURSIVE WordsToBytes(_)
WordsToBytes(ws) ==
    IF ws = <<>> THEN <<>> ELSE ToBytesLE(Head(ws), 4) \o WordsToBytes(Tail(ws))

BitMapSerialize(bm) ==
    BITMAP_COOKIE \o ToBytesLE(Cardinality(bm), 4) \o WordsToBytes(SortedSeqOf(bm))

\* BitMap.deserialize: ok = FALSE (ValueError) when the blob does not start with
\* a serialized bitmap; bytes after the bitmap are not looked at.
BitMapDeserialize(data) ==
    IF /\ Len(data) >= 8
       /\ SubSeq(data, 1, 4) = BITMAP_COOKIE
       /\ Len(data) >= 8 + 4 * FromBytesLE(SubSeq(data, 5, 8))
    THEN [ok |-> TRUE,
          bm |-> {FromBytesLE(SubSeq(data, 8 + 4 * k - 3, 8 + 4 * k)) :
                     k \in 1 .. FromBytesLE(SubSeq(data, 5, 8))}]
    ELSE [ok |-> FALSE, bm |-> {}]

\* ------------------------------------------- writers (u64.py, roaring.py)
RECURSIVE U64ToBytes(_)
\* ndarray.tofile of a uint64 array: 8 little-endian bytes per record.
U64ToBytes(ids) ==
    IF ids = <<>> THEN <<>> ELSE ToBytesLE(Head(ids), 8) \o U64ToBytes(Tail(ids))

\* SortedU64Writer.write (writers/u64.py:22-41): the bytes of the .u64 file.
SortedU64WriterWrite(ids) == U64ToBytes(ids)

HighWordAliased(x) == 0
\* writers/roaring.py:57, index/roaring.py:74
HighWord(x) == AsU32(x \div WordSize)
\* writers/roaring.py:58, index/roaring.py:75
LowWord(x) == AsU32(x % WordSize)

RECURSIVE RoaringGroupsOfAllLows(_, _)
RoaringGroupsOfAllLows(hs, ids) ==
    IF hs = <<>> THEN <<>>
    ELSE LET serialized == BitMapSerialize({LowWord(ids[k]) : k \in DOMAIN ids})
         IN  ToBytesLE(Head(hs), 4) \o ToBytesLE(Len(serialized), 4) \o serialized
                 \o RoaringGroupsOfAllLows(Tail(hs), ids)

\* writers/roaring.py:74-82: the groups of the high words hs, in this order.
RECURSIVE RoaringGroups(_, _)
RoaringGroups(hs, ids) ==
    IF hs = <<>> THEN <<>>
    ELSE LET low_vals == {LowWord(ids[k]) : k \in {j \in DOMAIN ids : HighWord(ids[j]) = Head(hs)}}
             serialized == BitMapSerialize(low_vals)
         IN  ToBytesLE(Head(hs), 4) \o ToBytesLE(Len(serialized), 4) \o serialized
                 \o RoaringGroups(Tail(hs), ids)

UsesNarrowModeAlways(ids) == TRUE
\* writers/roaring.py:49
UsesNarrowMode(ids) == Max(Range(ids)) <= U32_MAX

\* RoaringWriter.write (writers/roaring.py:23-84): the bytes of the .roar file.
RoaringWriterWrite(ids) ==
    IF Len(ids) = 0 THEN BitMapSerialize({})
    ELSE IF UsesNarrowMode(ids)
    THEN BitMapSerialize({AsU32(ids[k]) : k \in DOMAIN ids})
    ELSE LET unique_highs == NpUnique([k \in DOMAIN ids |-> HighWord(ids[k])])
         IN  ROAR64_MAGIC \o ToBytesLE(Len(unique_highs), 4)
                 \o RoaringGroups(unique_highs, ids)

\* ------------------------------------------------ index/sorted_u64.py
\* np.memmap(dtype="<u8") of a .u64 file; the zero-length file loads as the
\* empty array (index/sorted_u64.py:46-56).
RECURSIVE BytesToU64(_)
BytesToU64(data) ==
    IF Len(data) < 8 THEN <<>>
    ELSE <<FromBytesLE(SubSeq(data, 1, 8))>> \o BytesToU64(SubSeq(data, 9, Len(data)))

RECURSIVE SearchSortedRight(_, _, _, _)
SearchSortedRight(arr, x, lo, hi) ==
    IF lo >= hi THEN lo
    ELSE LET mid == (lo + hi) \div 2
         IN  IF arr[mid + 1] <= x THEN SearchSortedRight(arr, x, mid + 1, hi)
             ELSE SearchSortedRight(arr, x, lo, mid)

\* np.searchsorted(arr, x), side "left", by bisection over positions lo .. hi.
RECURSIVE SearchSorted(_, _, _, _)
SearchSorted(arr, x, lo, hi) ==
    IF lo >= hi THEN lo
    ELSE LET mid == (lo + hi) \div 2
         IN  IF arr[mid + 1] < x THEN SearchSorted(arr, x, mid + 1, hi)
             ELSE SearchSorted(arr, x, lo, mid)

SortedU64ContainsAtOrAbove(arr, x) ==
    Len(arr) # 0 /\ SearchSorted(arr, x, 0, Len(arr)) < Len(arr)
\* SortedU64Index.contains after the feature lookup (index/sorted_u64.py:99-105)
SortedU64Contains(arr, x) ==
    IF Len(arr) = 0 THEN FALSE
    ELSE LET idx == SearchSorted(arr, x, 0, Len(arr))
         IN  idx < Len(arr) /\ arr[idx + 1] = x

SortedU64CountDistinct(arr, ids) ==
    Cardinality({x \in Range(ids) : Len(arr) # 0 /\ x \in Range(arr)})
\* SortedU64Index.count after the feature lookup (index/sorted_u64.py:125-141)
SortedU64Count(arr, ids) ==
    IF Len(arr) = 0 THEN 0
    ELSE IF Len(ids) = 0 THEN 0
    ELSE LET indices == [k \in DOMAIN ids |-> SearchSorted(arr, ids[k], 0, Len(arr))]
             valid == [k \in DOMAIN ids |-> indices[k] < Len(arr)]
             matches == [k \in DOMAIN ids |->
                            valid[k] /\ arr[Min(indices[k], Len(arr) - 1) + 1] = ids[k]]
         IN  Cardinality({k \in DOMAIN ids : matches[k]})

\* --------------------------------------------------- index/roaring.py
\* The group table of an extended container (index/roaring.py:50-57): n groups
\* read at offset, a later group replacing an earlier one of the same high word.
RECURSIVE ParseGroupsAscending(_, _, _, _)
ParseGroupsAscending(data, offset, n, groups) ==
    IF n = 0 THEN [ok |-> TRUE, groups |-> groups]
    ELSE LET high == FromBytesLE(Slice(data, offset, 4))
             size == FromBytesLE(Slice(data, offset + 4, 4))
             bm == BitMapDeserialize(Slice(data, offset + 8, size))
         IN  IF ~bm.ok THEN [ok |-> FALSE, groups |-> groups]
             ELSE IF \E h \in DOMAIN groups : h > high
             THEN [ok |-> TRUE, groups |-> groups]
             ELSE ParseGroupsAscending(data, offset + 8 + size, n - 1,
                                       [h \in DOMAIN groups \cup {high} |->
                                           IF h = high THEN bm.bm ELSE groups[h]])

RECURSIVE ParseGroups(_, _, _, _)
ParseGroups(data, offset, n, groups) ==
    IF n = 0 THEN [ok |-> TRUE, groups |-> groups]
    ELSE LET high == FromBytesLE(Slice(data, offset, 4))
             size == FromBytesLE(Slice(data, offset + 4, 4))
             bm == BitMapDeserialize(Slice(data, offset + 8, size))
         IN  IF ~bm.ok THEN [ok |-> FALSE, groups |-> groups]
             ELSE ParseGroups(data, offset + 8 + size, n - 1,
                              [h \in DOMAIN groups \cup {high} |->
                                  IF h = high THEN bm.bm ELSE groups[h]])

ReadsAsExtendedNever(data) == FALSE
\* index/roaring.py:43
ReadsAsExtended(data) == Slice(data, 0, 6) = ROAR64_TAG

\* Roaring64Wrapper.deserialize (index/roaring.py:26-62); ok = FALSE when
\* BitMap.deserialize raises.
Roaring64Deserialize(data) ==
    IF Len(data) = 0
    THEN [ok |-> TRUE, is_64bit |-> FALSE, has_bitmap |-> TRUE, bitmap |-> {},
          high_groups |-> <<>>]
    ELSE IF ReadsAsExtended(data)
    THEN LET num_groups == FromBytesLE(Slice(data, 8, 4))
             parsed == ParseGroups(data, 12, num_groups, <<>>)
         IN  [ok |-> parsed.ok, is_64bit |-> TRUE, has_bitmap |-> FALSE,
              bitmap |-> {}, high_groups |-> parsed.groups]
    ELSE LET bm == BitMapDeserialize(data)
         IN  [ok |-> bm.ok, is_64bit |-> FALSE, has_bitmap |-> TRUE,
              bitmap |-> bm.bm, high_groups |-> <<>>]

WrapperContainsAliased(w, node_id) ==
    IF w.is_64bit
    THEN HighWord(node_id) \in DOMAIN w.high_groups
             /\ LowWord(node_id) \in w.high_groups[HighWord(node_id)]
    ELSE w.has_bitmap /\ AsU32(node_id) \in w.bitmap

\* Roaring64Wrapper.__contains__ (index/roaring.py:64-85)
WrapperContains(w, node_id) ==
    IF w.is_64bit
    THEN LET high == HighWord(node_id)
             low == LowWord(node_id)
         IN  IF high \in DOMAIN w.high_groups THEN low \in w.high_groups[high]
             ELSE FALSE
    ELSE IF ~w.has_bitmap THEN FALSE
    ELSE IF node_id > U32_MAX THEN FALSE
    ELSE node_id \in w.bitmap

WrapperLenCountsGroups(w) ==
    IF w.is_64bit THEN Cardinality(DOMAIN w.high_groups)
    ELSE IF w.has_bitmap THEN Cardinality(w.bitmap) ELSE 0
\* Roaring64Wrapper.__len__ (index/roaring.py:87-92)
WrapperLen(w) ==
    IF w.is_64bit
    THEN Cardinality(UNION {{<<h, x>> : x \in w.high_groups[h]} : h \in DOMAIN w.high_groups})
    ELSE IF w.has_bitmap THEN Cardinality(w.bitmap) ELSE 0

\* ------------------------------------------ the loaded indexes (index/)
\* The features a writer writes, the features build writes empty because no node
\* matched (cli.py:124-133), and the names a query may use.
WrittenFeatures == {"a"}
EmptyFeatures == {"b"}
QueryNames == {"a", "b", "zz"}
Backends == {"u64", "roar"}

RECURSIVE SetsUpTo(_)
SetsUpTo(n) ==
    IF n = 0 THEN {{}}
    ELSE LET smaller == SetsUpTo(n - 1)
         IN  smaller \cup {T \cup {x} : T \in smaller, x \in U64}

CanonicalSequences == {SortedSeqOf(S) : S \in SetsUpTo(MaxIds)}

QueryLists == UNION {[1 .. n -> U64] : n \in 0 .. MaxQuery}

NoResult ==
    [op |-> "none", backend |-> "", feature |-> "", raised |-> FALSE,
     msg_feature |-> "", msg_lists |-> FALSE, msg_available |-> {},
     node_id |-> NoId, node_ids |-> <<>>, flag |-> FALSE, num |-> 0,
     per_feature |-> <<>>]

\* A returned boolean or number.
Returned(op, b, f, flag, num) ==
    [NoResult EXCEPT !.op = op, !.backend = b, !.feature = f, !.flag = flag,
                     !.num = num]

ReturnsFalseOrZero(op, b, f, features) == Returned(op, b, f, FALSE, 0)
\* raise KeyError(f"Feature '{feature}' not loaded. Available: {...}")
KeyErrorAvailable(op, b, f, features) ==
    [NoResult EXCEPT !.op = op, !.backend = b, !.feature = f, !.raised = TRUE,
                     !.msg_feature = f, !.msg_lists = TRUE,
                     !.msg_available = DOMAIN features]

\* raise KeyError(f"Feature '{feature}' not loaded")
KeyErrorPlain(op, b, f) ==
    [NoResult EXCEPT !.op = op, !.backend = b, !.feature = f, !.raised = TRUE,
                     !.msg_feature = f]

IndexOf(b) == IF b = "u64" THEN u64_index ELSE roar_index

\* feature in self.features
IsLoaded(features, f) == f \in DOMAIN features

\* contains (index/sorted_u64.py:83-105, index/roaring.py:153-169)
IndexContains(b, features, f, x) ==
    IF ~IsLoaded(features, f) THEN KeyErrorAvailable("contains", b, f, features)
    ELSE IF b = "u64"
    THEN Returned("contains", b, f, SortedU64Contains(features[f], x), 0)
    ELSE Returned("contains", b, f, WrapperContains(features[f], x), 0)

\* The outcome of a query together with the arguments it was made with.
Asked(outcome, x, ids) == [outcome EXCEPT !.node_id = x, !.node_ids = ids]

\* count (index/sorted_u64.py:107-141, index/roaring.py:171-188)
IndexCount(b, features, f, ids) ==
    IF ~IsLoaded(features, f) THEN KeyErrorAvailable("count", b, f, features)
    ELSE IF b = "u64"
    THEN Returned("count", b, f, FALSE, SortedU64Count(features[f], ids))
    ELSE Returned("count", b, f, FALSE,
                  Cardinality({k \in DOMAIN ids : WrapperContains(features[f], ids[k])}))

\* get_size (index/sorted_u64.py:143-154, index/roaring.py:190-201)
IndexGetSize(b, features, f) ==
    IF ~IsLoaded(features, f) THEN KeyErrorPlain("get_size", b, f)
    ELSE IF b = "u64"
    THEN Returned("get_size", b, f, FALSE, Len(features[f]))
    ELSE Returned("get_size", b, f, FALSE, WrapperLen(features[f]))

\* Ways a .roar file in extended mode is damaged before it is read: the length
\* field of its first group raised by one record, its group count raised by
\* one, or the file cut after its first n bytes.
DamageKinds == {"group_length", "group_count", "cut"}
CutLengths == {6, 8, 9, 12, 16, 20}
NoDamage ==
    [kind |-> "none", feature |-> "", data |-> <<>>, ok |-> TRUE, groups |-> <<>>,
     wrapper |-> <<>>]

AddToField(data, offset, k) ==
    SubSeq(data, 1, offset)
        \o ToBytesLE(FromBytesLE(Slice(data, offset, 4)) + k, 4)
        \o SubSeq(data, offset + 5, Len(data))

Damage(kind, n, data) ==
    IF kind = "group_length" THEN AddToField(data, 16, 4)
    ELSE IF kind = "group_count" THEN AddToField(data, 8, 1)
    ELSE SubSeq(data, 1, Min(n, Len(data)))

\* The byte ranges of the n groups of an extended container from offset on, each
\* with its 8-byte header, in file order.
RECURSIVE GroupSlices(_, _, _)
GroupSlices(data, offset, n) ==
    IF n = 0 THEN <<>>
    ELSE LET size == FromBytesLE(Slice(data, offset + 4, 4))
         IN  <<Slice(data, offset, 8 + size)>> \o GroupSlices(data, offset + 8 + size, n - 1)

RECURSIVE ReverseSeq(_)
ReverseSeq(s) == IF s = <<>> THEN <<>> ELSE ReverseSeq(Tail(s)) \o <<Head(s)>>

\* The extended container data with the same header and its groups in the
\* opposite order.
GroupsReversed(data) ==
    SubSeq(data, 1, 12)
        \o NpConcatenate(ReverseSeq(GroupSlices(data, 12, FromBytesLE(Slice(data, 8, 4)))))

\* BaseIndex.count_all (index/base.py:73-84): the count of every loaded feature.
IndexCountAll(b, features, ids) ==
    [NoResult EXCEPT !.op = "count_all", !.backend = b,
                     !.per_feature = [f \in DOMAIN features |->
                                         IndexCount(b, features, f, ids).num]]

\* get_statistics (index/sorted_u64.py:156-169, index/roaring.py:203-215)
IndexGetStatistics(b, features) ==
    [NoResult EXCEPT !.op = "get_statistics", !.backend = b,
                     !.per_feature =
                         IF b = "u64"
                         THEN [f \in DOMAIN features |->
                                  [count |-> Len(features[f]),
                                   size_bytes |-> Len(features[f]) * 8]]
                         ELSE [f \in DOMAIN features |->
                                  [count |-> WrapperLen(features[f]),
                                   is_64bit |-> features[f].is_64bit]]]

IndexInit ==
    /\ u64_files = <<>>
    /\ roar_files = <<>>
    /\ feature_ids = <<>>
    /\ u64_index = [loaded |-> FALSE, features |-> <<>>]
    /\ roar_index = [loaded |-> FALSE, features |-> <<>>]
    /\ result = NoResult
    /\ damaged = NoDamage

NothingLoaded == ~u64_index.loaded /\ ~roar_index.loaded

\* Both writers write the canonical sequence ids of feature f (cli.py:146-155).
WriteIndex(f, ids) ==
    /\ NothingLoaded
    /\ f \notin DOMAIN feature_ids
    /\ u64_files' = WriteFile(u64_files, f, SortedU64WriterWrite(ids))
    /\ roar_files' = WriteFile(roar_files, f, RoaringWriterWrite(ids))
    /\ feature_ids' = WriteFile(feature_ids, f, ids)
    /\ UNCHANGED <<u64_index, roar_index, result, damaged, engineVars, bufVars, callerVars, buildVars>>

\* build writes the files of a feature no node matched (cli.py:124-133).
WriteEmpty(f) ==
    /\ NothingLoaded
    /\ f \notin DOMAIN feature_ids
    /\ u64_files' = WriteFile(u64_files, f, <<>>)
    /\ roar_files' = WriteFile(roar_files, f, BitMapSerialize({}))
    /\ feature_ids' = WriteFile(feature_ids, f, <<>>)
    /\ UNCHANGED <<u64_index, roar_index, result, damaged, engineVars, bufVars, callerVars, buildVars>>

\* SortedU64Index.load_dir (index/sorted_u64.py:30-58)
LoadU64 ==
    /\ ~u64_index.loaded
    /\ u64_index' = [loaded |-> TRUE,
                     features |-> [f \in DOMAIN u64_files |->
                                      IF Len(u64_files[f]) = 0 THEN <<>>
                                      ELSE BytesToU64(u64_files[f])]]
    /\ UNCHANGED <<u64_files, roar_files, feature_ids, roar_index, result, damaged, engineVars,
                   bufVars, callerVars, buildVars>>

\* RoaringIndex.load_dir (index/roaring.py:111-129)
LoadRoar ==
    /\ ~roar_index.loaded
    /\ \A f \in DOMAIN roar_files : Roaring64Deserialize(roar_files[f]).ok
    /\ roar_index' = [loaded |-> TRUE,
                      features |-> [f \in DOMAIN roar_files |->
                                       Roaring64Deserialize(roar_files[f])]]
    /\ UNCHANGED <<u64_files, roar_files, feature_ids, u64_index, result, damaged, engineVars,
                   bufVars, callerVars, buildVars>>

\* Roaring64Wrapper.deserialize (index/roaring.py:26-62) on the bytes of a
\* damaged extended-mode file, as load_dir calls it (index/roaring.py:125-127).
DeserializeDamaged(f, kind, n) ==
    /\ f \in DOMAIN roar_files
    /\ ReadsAsExtended(roar_files[f])
    /\ damaged = NoDamage
    /\ result = NoResult
    /\ LET data == Damage(kind, n, roar_files[f])
           w == Roaring64Deserialize(data)
       IN  damaged' = [kind |-> kind, feature |-> f, data |-> data, ok |-> w.ok,
                       groups |-> w.high_groups, wrapper |-> w]
    /\ UNCHANGED <<u64_files, roar_files, feature_ids, u64_index, roar_index, result,
                   engineVars, bufVars, callerVars, buildVars>>

\* Roaring64Wrapper.deserialize (index/roaring.py:26-62) on an extended-mode
\* file whose groups lie in another order than the writer's.
DeserializeReordered(f) ==
    /\ f \in DOMAIN roar_files
    /\ ReadsAsExtended(roar_files[f])
    /\ damaged = NoDamage
    /\ result = NoResult
    /\ LET data == GroupsReversed(roar_files[f])
           w == Roaring64Deserialize(data)
       IN  damaged' = [kind |-> "reordered", feature |-> f, data |-> data,
                       ok |-> w.ok, groups |-> w.high_groups, wrapper |-> w]
    /\ UNCHANGED <<u64_files, roar_files, feature_ids, u64_index, roar_index, result,
                   engineVars, bufVars, callerVars, buildVars>>

\* One query is followed per behaviour: a query changes nothing but its result.
Contains(b, f, x) ==
    /\ IndexOf(b).loaded
    /\ result = NoResult
    /\ result' = Asked(IndexContains(b, IndexOf(b).features, f, x), x, <<>>)
    /\ UNCHANGED <<u64_files, roar_files, feature_ids, u64_index, roar_index, damaged, engineVars,
                   bufVars, callerVars, buildVars>>

Count(b, f, ids) ==
    /\ IndexOf(b).loaded
    /\ result = NoResult
    /\ result' = Asked(IndexCount(b, IndexOf(b).features, f, ids), NoId, ids)
    /\ UNCHANGED <<u64_files, roar_files, feature_ids, u64_index, roar_index, damaged, engineVars,
                   bufVars, callerVars, buildVars>>

GetSize(b, f) ==
    /\ IndexOf(b).loaded
    /\ result = NoResult
    /\ result' = IndexGetSize(b, IndexOf(b).features, f)
    /\ UNCHANGED <<u64_files, roar_files, feature_ids, u64_index, roar_index, damaged, engineVars,
                   bufVars, callerVars, buildVars>>

CountAll(b, ids) ==
    /\ IndexOf(b).loaded
    /\ result = NoResult
    /\ result' = Asked(IndexCountAll(b, IndexOf(b).features, ids), NoId, ids)
    /\ UNCHANGED <<u64_files, roar_files, feature_ids, u64_index, roar_index, damaged,
                   engineVars, bufVars, callerVars, buildVars>>

GetStatistics(b) ==
    /\ IndexOf(b).loaded
    /\ result = NoResult
    /\ result' = IndexGetStatistics(b, IndexOf(b).features)
    /\ UNCHANGED <<u64_files, roar_files, feature_ids, u64_index, roar_index, damaged,
                   engineVars, bufVars, callerVars, buildVars>>

\* ------------------------------------------- handler.py and cli.py build
\* The features build was asked for, in the order of the feature_specs dict.
FeatureSpecs == <<"signals", "stops">>
FeatureNames == Range(FeatureSpecs)

\* The node ids of the scanned file: two are enough for a repeated id and for
\* two features that hold different ids.
NodeIds == {0, 1}

\* A node's tags, as a set of <<key, value>> pairs with one pair per key.
TagDicts ==
    {{},
     {<<"highway", "stop">>},
     {<<"highway", "traffic_signals">>},
     {<<"highway", "stop">>, <<"crossing", "traffic_signals">>},
     {<<"highway", "crossing">>}}

\* tags.get(key): the value of the key, None when the key is absent.
TagsGet(tags, key) ==
    IF \E t \in tags : t[1] = key
    THEN (CHOOSE t \in tags : t[1] = key)[2]
    ELSE "None"

\* schema.py:22-29
pred_signal(tags) ==
    \/ TagsGet(tags, "highway") = "traffic_signals"
    \/ TagsGet(tags, "crossing") = "traffic_signals"
pred_stop(tags) == TagsGet(tags, "highway") = "stop"

Predicate(name, tags) ==
    IF name = "signals" THEN pred_signal(tags) ELSE pred_stop(tags)

\* ChunkedIdBuffer.add on the buffer of f, on the state st of the temp directory
\* and the buffers (utils.py:241-251).
BufferAdd(st, f, v, threshold) ==
    LET appended == Append(st.buffer[f], v)
        r == IF MustFlush(Len(appended), threshold)
             THEN FlushResult(st.fs, f, appended, st.chunk_count[f])
             ELSE [fs |-> st.fs, buffer |-> appended, chunk_count |-> st.chunk_count[f]]
    IN  [fs |-> r.fs,
         buffer |-> [st.buffer EXCEPT ![f] = r.buffer],
         chunk_count |-> [st.chunk_count EXCEPT ![f] = r.chunk_count],
         total_count |-> [st.total_count EXCEPT ![f] = @ + 1],
         added |-> [st.added EXCEPT ![f] = Append(@, v)]]

\* The loop over feature_specs of node (handler.py:66-69).
RECURSIVE HandlerAdds(_, _, _, _, _)
HandlerAdds(st, names, tags, id, threshold) ==
    IF names = <<>> THEN st
    ELSE HandlerAdds(IF Predicate(Head(names), tags)
                     THEN BufferAdd(st, Head(names), id, threshold)
                     ELSE st,
                     Tail(names), tags, id, threshold)

MatchedPerFeature(n) == n
\* handler.py:63-72: matched is set by any feature, nodes_matched grows by one.
MatchedIncrement(n) == IF n > 0 THEN 1 ELSE 0

\* osmium calls node (handler.py:49-72) for the next node of the file.
Node(id, tags) ==
    /\ build_pc = "scan"
    /\ nodes_processed < MaxNodes
    /\ nodes_processed' = nodes_processed + 1
    /\ events' = Append(events, [id |-> id, tags |-> tags])
    /\ IF tags = {}
       THEN UNCHANGED <<fs, buffer, chunk_count, total_count, added, nodes_matched>>
       ELSE LET st == HandlerAdds([fs |-> fs, buffer |-> buffer,
                                   chunk_count |-> chunk_count,
                                   total_count |-> total_count, added |-> added],
                                  FeatureSpecs, tags, id, flush_threshold)
                matching == {k \in DOMAIN FeatureSpecs : Predicate(FeatureSpecs[k], tags)}
            IN  /\ fs' = st.fs
                /\ buffer' = st.buffer
                /\ chunk_count' = st.chunk_count
                /\ total_count' = st.total_count
                /\ added' = st.added
                /\ nodes_matched' = nodes_matched + MatchedIncrement(Cardinality(matching))
    /\ UNCHANGED <<pc, callVars, flush_threshold, finalize_calls, finalizing, paths_ret,
                   taken, callerVars, idxVars, build_pc, tmp_supplied, tmp_exists, fmt,
                   feature_i, build_chunks, stats>>

\* get_chunk_paths on every buffer (handler.py:112): each flushes.
RECURSIVE FlushAll(_, _)
FlushAll(st, names) ==
    IF names = <<>> THEN st
    ELSE LET f == Head(names)
             r == FlushResult(st.fs, f, st.buffer[f], st.chunk_count[f])
         IN  FlushAll([fs |-> r.fs,
                       buffer |-> [st.buffer EXCEPT ![f] = r.buffer],
                       chunk_count |-> [st.chunk_count EXCEPT ![f] = r.chunk_count]],
                      Tail(names))

\* apply_file has returned: extract_features collects the chunk paths and build
\* reads the statistics (handler.py:109-114, cli.py:106-115).
ScanEnd ==
    /\ build_pc = "scan"
    /\ LET st == FlushAll([fs |-> fs, buffer |-> buffer, chunk_count |-> chunk_count],
                          FeatureSpecs)
       IN  /\ fs' = st.fs
           /\ buffer' = st.buffer
           /\ chunk_count' = st.chunk_count
           /\ build_chunks' = [f \in FeatureNames |-> ChunkPathsOf(f, st.chunk_count[f])]
    /\ stats' = [nodes_processed |-> nodes_processed,
                 nodes_matched |-> nodes_matched,
                 feature_counts |-> total_count]
    /\ build_pc' = "features"
    /\ feature_i' = 1
    /\ UNCHANGED <<pc, callVars, total_count, flush_threshold, added, finalize_calls,
                   finalizing, paths_ret, taken, callerVars, idxVars, nodes_processed,
                   nodes_matched, events, tmp_supplied, tmp_exists, fmt>>

\* The files of the output directory after the writers the format asks for ran.
WritesU64(files, f, bytes) ==
    IF fmt \in {"u64", "both"} THEN WriteFile(files, f, bytes) ELSE files
WritesRoar(files, f, bytes) ==
    IF fmt \in {"roar", "both"} THEN WriteFile(files, f, bytes) ELSE files

\* The head of the loop body over feature_specs (cli.py:120-137): a feature with
\* no node gets its empty files, any other has its chunks sorted.
BuildFeature ==
    /\ build_pc = "features"
    /\ pc = "idle"
    /\ feature_i <= Len(FeatureSpecs)
    /\ LET f == FeatureSpecs[feature_i]
       IN  IF stats.feature_counts[f] = 0
           THEN /\ u64_files' = WritesU64(u64_files, f, <<>>)
                /\ roar_files' = WritesRoar(roar_files, f, BitMapSerialize({}))
                /\ feature_i' = feature_i + 1
                /\ UNCHANGED <<fs, pc, callVars>>
           ELSE /\ given' = [k \in 1 .. Len(build_chunks[f]) |->
                                read_ids_from_file(fs, build_chunks[f][k])]
                /\ SortEnter(fs, build_chunks[f], FeatureSortedPath(f), SortRemovesChunks)
                /\ UNCHANGED <<u64_files, roar_files, feature_i>>
    /\ UNCHANGED <<bufVars, callerVars, feature_ids, u64_index, roar_index, result,
                   damaged, nodes_processed, nodes_matched, events, build_pc,
                   tmp_supplied, tmp_exists, fmt, build_chunks, stats>>

\* The rest of the loop body (cli.py:139-158): the sorted file is read, written
\* in the formats asked for, and removed.
BuildWrite ==
    /\ build_pc = "features"
    /\ pc = "done"
    /\ LET f == FeatureSpecs[feature_i]
           sorted_path == FeatureSortedPath(f)
           sorted_ids == fs[sorted_path]
       IN  /\ u64_files' = WritesU64(u64_files, f, SortedU64WriterWrite(sorted_ids))
           /\ roar_files' = WritesRoar(roar_files, f, RoaringWriterWrite(sorted_ids))
           /\ fs' = Unlink(fs, sorted_path)
    /\ feature_i' = feature_i + 1
    /\ pc' = "idle"
    /\ UNCHANGED <<callVars, bufVars, callerVars, feature_ids, u64_index, roar_index,
                   result, damaged, nodes_processed, nodes_matched, events, build_pc,
                   tmp_supplied, tmp_exists, fmt, build_chunks, stats>>

\* The finally clause (cli.py:162-165): a temp directory build created is
\* removed with all its files.
Finally ==
    IF ~tmp_supplied /\ tmp_exists
    THEN fs' = <<>> /\ tmp_exists' = FALSE
    ELSE UNCHANGED <<fs, tmp_exists>>

\* The loop is over: build ends normally.
BuildFinish ==
    /\ build_pc = "features"
    /\ pc = "idle"
    /\ feature_i > Len(FeatureSpecs)
    /\ Finally
    /\ build_pc' = "finished"
    /\ UNCHANGED <<pc, callVars, bufVars, callerVars, idxVars, nodes_processed,
                   nodes_matched, events, tmp_supplied, fmt, feature_i, build_chunks,
                   stats>>

\* An exception leaves the try block at any point of the scan or of the loop.
BuildFail ==
    /\ build_pc \in {"scan", "features"}
    /\ Finally
    /\ build_pc' = "failed"
    /\ pc' = "idle"
    /\ UNCHANGED <<callVars, bufVars, callerVars, idxVars, nodes_processed,
                   nodes_matched, events, tmp_supplied, fmt, feature_i, build_chunks,
                   stats>>

\* No build is running.
BuildIdle ==
    /\ nodes_processed = 0
    /\ nodes_matched = 0
    /\ events = <<>>
    /\ build_pc = "none"
    /\ tmp_supplied = FALSE
    /\ tmp_exists = FALSE
    /\ fmt = "both"
    /\ feature_i = 0
    /\ build_chunks = <<>>
    /\ stats = <<>>

\* ------------------------------------------------------- specifications
\* The sort/merge engine called on chunk files a caller wrote.
Init ==
    /\ EngineInit
    /\ pc = "setup"
    /\ BufferInit
    /\ IndexInit
    /\ BuildIdle
    /\ flush_threshold = 1
    /\ round = 1
    /\ first_result = <<>>

Next ==
    \/ NewChunk
    \/ \E v \in Ids : WriteId(v)
    \/ \E rm \in BOOLEAN : CallSort(rm)
    \/ \E rm \in BOOLEAN : CallMerge(rm)
    \/ SortChunk
    \/ SortMerge
    \/ MergeStep
    \/ MergeFinish

Spec == Init /\ [][Next]_vars

\* merge_sorted_files called on sorted files, under the scheduling of
\* sequential code: a call that has entered the merge loop keeps running it
\* until it returns.
NextMerge ==
    \/ NewChunk
    \/ \E v \in Ids : WriteSortedId(v)
    \/ \E rm \in BOOLEAN : CallMerge(rm)
    \/ MergeStep
    \/ MergeFinish

SpecFair == Init /\ [][NextMerge]_vars /\ WF_vars(MergeStep) /\ WF_vars(MergeFinish)

\* The same, with a caller that repeats the sort on a rearranged chunk list.
NextPerm ==
    \/ NewChunk
    \/ \E v \in Ids : WriteId(v)
    \/ \E rm \in BOOLEAN : CallSort(rm)
    \/ SortChunk
    \/ SortMerge
    \/ MergeStep
    \/ MergeFinish
    \/ \E g \in Rearrangements : CallAgain(g)

SpecPerm == Init /\ [][NextPerm]_vars

\* One ChunkedIdBuffer per feature, driven by add, flush, get_chunk_paths and
\* finalize in any order.
InitBuf ==
    /\ EngineInit
    /\ pc = "idle"
    /\ BufferInit
    /\ IndexInit
    /\ BuildIdle
    /\ flush_threshold \in 1 .. MaxThreshold
    /\ round = 1
    /\ first_result = <<>>

NextBuf ==
    \/ \E f \in Features, v \in BufIds : Add(f, v)
    \/ \E f \in Features : Flush(f)
    \/ \E f \in Features : GetChunkPaths(f)
    \/ \E f \in Features : Finalize(f)
    \/ SortChunk
    \/ SortMerge
    \/ MergeStep
    \/ MergeFinish
    \/ Return

SpecBuf == InitBuf /\ [][NextBuf]_vars

\* The build command: the scan of the node events, then the loop over the
\* features, with an exception possible at any point.
InitBuild ==
    /\ EngineInit
    /\ pc = "idle"
    /\ buffer = [f \in FeatureNames |-> <<>>]
    /\ chunk_count = [f \in FeatureNames |-> 0]
    /\ total_count = [f \in FeatureNames |-> 0]
    /\ added = [f \in FeatureNames |-> <<>>]
    /\ finalize_calls = [f \in FeatureNames |-> 0]
    /\ finalizing = ""
    /\ paths_ret = <<>>
    /\ taken = [f \in FeatureNames |-> 0]
    /\ IndexInit
    /\ flush_threshold \in 1 .. MaxThreshold
    /\ round = 1
    /\ first_result = <<>>
    /\ nodes_processed = 0
    /\ nodes_matched = 0
    /\ events = <<>>
    /\ build_pc = "scan"
    /\ tmp_supplied \in BOOLEAN
    /\ tmp_exists = TRUE
    /\ fmt = "both"
    /\ feature_i = 0
    /\ build_chunks = <<>>
    /\ stats = <<>>

NextBuild ==
    \/ \E id \in NodeIds, tags \in TagDicts : Node(id, tags)
    \/ ScanEnd
    \/ BuildFeature
    \/ SortChunk
    \/ SortMerge
    \/ MergeStep
    \/ MergeFinish
    \/ BuildWrite
    \/ BuildFinish
    \/ BuildFail

SpecBuild == InitBuild /\ [][NextBuild]_vars

\* The writers, the readers and the queries on the loaded indexes.
InitIdx ==
    /\ EngineInit
    /\ pc = "idle"
    /\ BufferInit
    /\ IndexInit
    /\ BuildIdle
    /\ flush_threshold = 1
    /\ round = 1
    /\ first_result = <<>>

NextIdx ==
    \/ \E f \in WrittenFeatures, ids \in CanonicalSequences : WriteIndex(f, ids)
    \/ \E f \in EmptyFeatures : WriteEmpty(f)
    \/ LoadU64
    \/ LoadRoar
    \/ \E b \in Backends, f \in QueryNames, x \in U64 : Contains(b, f, x)
    \/ \E b \in Backends, f \in QueryNames, ids \in QueryLists : Count(b, f, ids)
    \/ \E b \in Backends, f \in QueryNames : GetSize(b, f)
    \/ \E b \in Backends, ids \in QueryLists : CountAll(b, ids)
    \/ \E b \in Backends : GetStatistics(b)
    \/ \E f \in WrittenFeatures, kind \in DamageKinds, n \in CutLengths :
           DeserializeDamaged(f, kind, n)
    \/ \E f \in WrittenFeatures : DeserializeReordered(f)

SpecIdx == InitIdx /\ [][NextIdx]_vars

\* ----------------------------------------------------------------- claims
\* The distinct values of a list of chunks.
ValuesOf(chunks) == UNION {Range(chunks[k]) : k \in DOMAIN chunks}

\* `out` is the canonical sequence of the values `values`.
IsCanonicalOf(out, values) == IsStrictlyAscending(out) /\ Range(out) = values

HasDuplicateInside(chunk) ==
    \E j, k \in DOMAIN chunk : j # k /\ chunk[j] = chunk[k]

HasDuplicateAcross(chunks) ==
    \E j, k \in DOMAIN chunks : j # k /\ Range(chunks[j]) \cap Range(chunks[k]) # {}

\* C1: when sort_and_unique_chunks has returned, the output file holds exactly the
\* distinct values of all chunks it was given, in strictly ascending order, and
\* the returned number is the number of records of the output file.
C1_SortWritesCanonicalSequence ==
    (pc = "done" /\ sort_path \in {"empty", "memory", "external"}) =>
        /\ Exists(fs, output_path)
        /\ IsCanonicalOf(fs[output_path], ValuesOf(given))
        /\ ret = Len(fs[output_path])

C1_Witness ==
    /\ pc = "done"
    /\ sort_path = "external"
    /\ Len(given) >= 2
    /\ \E k \in DOMAIN given : ~IsAscending(given[k]) /\ HasDuplicateInside(given[k])
    /\ HasDuplicateAcross(given)

\* C2: when merge_sorted_files has returned from a call on k >= 1 files, each of
\* them ascending or k = 1, the output file holds every distinct value of the
\* inputs once, in strictly ascending order, and the returned number is the number
\* of values written.
C2_MergeWritesEachValueOnce ==
    (/\ pc = "done"
     /\ sort_path = "merge"
     /\ Len(given) >= 1
     /\ (Len(given) = 1 \/ \A k \in DOMAIN given : IsAscending(given[k]))) =>
        /\ Exists(fs, output_path)
        /\ IsCanonicalOf(fs[output_path], ValuesOf(given))
        /\ ret = Len(fs[output_path])

C2_Witness ==
    /\ pc = "done"
    /\ sort_path = "merge"
    /\ Len(given) >= 2
    /\ \A k \in DOMAIN given : IsAscending(given[k])
    /\ \E j, k \in DOMAIN given, v \in Ids :
           /\ j # k
           /\ Cardinality({n \in DOMAIN given[j] : given[j][n] = v}) >= 2
           /\ v \in Range(given[k])
    /\ Len(fs[output_path]) >= 2

\* C3: for a buffer that was never finalized, the chunk files 0 .. chunk_count-1 in
\* this order followed by the in-memory buffer are the added identifiers in call
\* order, total_count is the number of add calls, and no step decreases
\* total_count.
C3_Kept(f) ==
    finalize_calls[f] = 0 =>
        /\ \A k \in 0 .. chunk_count[f] - 1 : Exists(fs, PartPath(f, k))
        /\ NpConcatenate([k \in 1 .. chunk_count[f] |-> fs[PartPath(f, k - 1)]])
               \o buffer[f] = added[f]
        /\ total_count[f] = Len(added[f])

C3_BufferDropsNothing ==
    /\ [](\A f \in Features : C3_Kept(f))
    /\ [][\A f \in Features : total_count'[f] >= total_count[f]]_vars

C3_Witness ==
    \E f \in Features :
        /\ finalize_calls[f] = 0
        /\ chunk_count[f] >= 2
        /\ buffer[f] # <<>>
        /\ HasDuplicateInside(added[f])
        /\ ~IsAscending(added[f])

\* C4: when the first finalize of a buffer has returned, its output file is the
\* strictly ascending sequence of the distinct identifiers added before it and the
\* returned number is their number, whatever flush_threshold >= 1 the buffer has.
C4_FinalizeWritesCanonicalSequence ==
    \A f \in Features :
        (pc = "done" /\ finalizing = f /\ finalize_calls[f] = 1) =>
            /\ Exists(fs, OutPath(f))
            /\ IsCanonicalOf(fs[OutPath(f)], Range(added[f]))
            /\ ret = Cardinality(Range(added[f]))

C4_Witness ==
    \E f \in Features :
        /\ pc = "done"
        /\ finalizing = f
        /\ finalize_calls[f] = 1
        /\ sort_path = "external"
        /\ flush_threshold >= 2
        /\ chunk_count[f] >= 2
        /\ HasDuplicateInside(added[f])
        /\ ~IsAscending(added[f])

\* C7: sort_and_unique_chunks takes the in-memory branch exactly when the chunks
\* hold at most EXTERNAL_SORT_THRESHOLD identifiers, and on either branch the
\* output file and the returned number are those the in-memory computation
\* (np.unique of the concatenated chunks) gives for the same chunk list.
C7_BranchesAgree ==
    (pc = "done" /\ sort_path \in {"memory", "external"}) =>
        /\ (sort_path = "memory") <=>
               (Len(NpConcatenate(given)) <= EXTERNAL_SORT_THRESHOLD)
        /\ fs[output_path] = NpUnique(NpConcatenate(given))
        /\ ret = Len(NpUnique(NpConcatenate(given)))

C7_Witness ==
    /\ pc = "done"
    /\ sort_path = "external"
    /\ Len(NpConcatenate(given)) = EXTERNAL_SORT_THRESHOLD + 1
    /\ Len(fs[output_path]) >= 2

\* C8: a second call of sort_and_unique_chunks on the same chunks, with the chunk
\* list or the identifiers inside a chunk rearranged, writes the same output file
\* and returns the same number as the first call.
C8_RearrangedInputSameOutput ==
    (pc = "done" /\ round = 2) =>
        /\ fs[output_path] = first_result.out
        /\ ret = first_result.ret

C8_Witness ==
    /\ pc = "done"
    /\ round = 2
    /\ sort_path = "external"
    /\ Len(fs[output_path]) >= 2
    /\ \E k \in DOMAIN given : ~IsAscending(given[k])

\* The features of the loaded index of backend b.
LoadedFeatures(b) == DOMAIN IndexOf(b).features

\* The file starts with the six bytes "ROAR64".
HasRoar64Tag(data) == Len(data) >= 6 /\ SubSeq(data, 1, 6) = ROAR64_TAG

\* The sequence holds an identifier above 2^32 - 1.
HasWideId(ids) == \E k \in DOMAIN ids : ids[k] > U32_MAX

\* C5: after a canonical sequence was written by SortedU64Writer and by
\* RoaringWriter and the file was loaded by the matching index, contains on that
\* feature returns (it does not raise), true for every identifier of the
\* sequence and false for every other 64-bit identifier.
C5_ContainsAnswersWrittenSet ==
    (result.op = "contains" /\ result.feature \in DOMAIN feature_ids) =>
        /\ ~result.raised
        /\ result.flag <=> (result.node_id \in Range(feature_ids[result.feature]))

C5_Witness ==
    /\ result.op = "contains"
    /\ result.backend = "roar"
    /\ result.feature = "a"
    /\ "a" \in DOMAIN feature_ids
    /\ \E j, k \in DOMAIN feature_ids["a"] :
           /\ HighWord(feature_ids["a"][j]) # HighWord(feature_ids["a"][k])
           /\ LowWord(feature_ids["a"][j]) = LowWord(feature_ids["a"][k])
    /\ result.node_id > U32_MAX
    /\ result.flag

\* C6: the file RoaringWriter writes starts with the ROAR64 tag exactly when the
\* sequence is non-empty and holds an identifier above 2^32 - 1; otherwise it
\* is the serialization of one native bitmap of the identifiers; and the loaded
\* wrapper has is_64bit set exactly for the files written with the tag.
C6_ModeSelectionIsExact ==
    \A f \in DOMAIN roar_files :
        /\ HasRoar64Tag(roar_files[f]) <=>
               (feature_ids[f] # <<>> /\ HasWideId(feature_ids[f]))
        /\ ~HasRoar64Tag(roar_files[f]) =>
               roar_files[f] = BitMapSerialize(Range(feature_ids[f]))
        /\ roar_index.loaded =>
               (roar_index.features[f].is_64bit <=> HasRoar64Tag(roar_files[f]))

C6_Witness ==
    /\ roar_index.loaded
    /\ "a" \in DOMAIN roar_files
    /\ feature_ids["a"] = <<U32_MAX, U32_MAX + 1>>
    /\ HasRoar64Tag(roar_files["a"])
    /\ roar_index.features["a"].is_64bit

\* C9: contains and count on a feature name that is not loaded raise KeyError
\* whose message names the requested feature and lists the loaded features, in
\* both backends; they return neither false nor 0.
C9_UnknownFeatureRaises ==
    (/\ result.op \in {"contains", "count"}
     /\ result.feature \notin LoadedFeatures(result.backend)) =>
        /\ result.raised
        /\ result.msg_feature = result.feature
        /\ result.msg_lists
        /\ result.msg_available = LoadedFeatures(result.backend)

C9_Witness ==
    /\ result.op = "count"
    /\ result.feature = "zz"
    /\ result.node_ids = <<>>
    /\ LoadedFeatures(result.backend) = {"b"}
    /\ result.raised

\* C10: get_size on a feature name that is not loaded raises an error whose
\* message names the requested feature and the set of loaded features, in both
\* backends.
C10_GetSizeNamesAvailable ==
    (/\ result.op = "get_size"
     /\ result.feature \notin LoadedFeatures(result.backend)) =>
        /\ result.raised
        /\ result.msg_feature = result.feature
        /\ result.msg_lists
        /\ result.msg_available = LoadedFeatures(result.backend)

\* The fields and group slices the header of an extended container declares lie
\* inside the data: n groups from offset on.
RECURSIVE TableFits(_, _, _)
TableFits(data, offset, n) ==
    \/ n = 0
    \/ /\ offset + 8 <= Len(data)
       /\ offset + 8 + FromBytesLE(Slice(data, offset + 4, 4)) <= Len(data)
       /\ TableFits(data, offset + 8 + FromBytesLE(Slice(data, offset + 4, 4)), n - 1)

ContainerFits(data) ==
    Len(data) >= 12 /\ TableFits(data, 12, FromBytesLE(Slice(data, 8, 4)))

\* C11: deserialize of an extended container whose group table declares a group
\* length or a group count beyond the bytes that remain raises; it returns no
\* wrapper.
C11_OverlongTableIsRejected ==
    (damaged.kind # "none" /\ ~ContainerFits(damaged.data)) => ~damaged.ok

\* The other backend.
Other(b) == IF b = "u64" THEN "roar" ELSE "u64"

\* What the loaded index of backend b answers to the query that gave `result`.
AnswerOf(b) ==
    LET features == IndexOf(b).features
    IN  IF result.op = "contains"
        THEN Asked(IndexContains(b, features, result.feature, result.node_id),
                   result.node_id, <<>>)
        ELSE IF result.op = "count"
        THEN Asked(IndexCount(b, features, result.feature, result.node_ids),
                   NoId, result.node_ids)
        ELSE IF result.op = "count_all"
        THEN Asked(IndexCountAll(b, features, result.node_ids), NoId, result.node_ids)
        ELSE IndexGetSize(b, features, result.feature)

\* C12: with the same canonical sequences written by both writers and loaded by
\* the matching indexes, contains, count, count_all and get_size give in one
\* backend what they give in the other, for every identifier and query list.
C12_BackendsAnswerAlike ==
    (/\ result.op \in {"contains", "count", "count_all", "get_size"}
     /\ u64_index.loaded
     /\ roar_index.loaded) =>
        AnswerOf(Other(result.backend)) = [result EXCEPT !.backend = Other(@)]

C12_Witness ==
    /\ result.op = "count"
    /\ result.backend = "u64"
    /\ roar_index.loaded
    /\ "a" \in DOMAIN roar_files
    /\ HasRoar64Tag(roar_files["a"])
    /\ result.feature = "a"
    /\ result.num = 1
    /\ Len(result.node_ids) = 2

\* The positions of the query list ids at which contains of backend b is true.
PositionsContained(b, f, ids) ==
    {k \in DOMAIN ids : IndexContains(b, IndexOf(b).features, f, ids[k]).flag}

\* C13: count returns the number of positions of the query list at which
\* contains is true, a repeated identifier counting each time and an empty list
\* or empty feature giving 0; count_all has exactly the loaded features as keys
\* and maps each to its count.
C13_CountIsPerPosition ==
    /\ (result.op = "count" /\ ~result.raised) =>
           result.num = Cardinality(PositionsContained(result.backend, result.feature,
                                                       result.node_ids))
    /\ result.op = "count_all" =>
           /\ DOMAIN result.per_feature = LoadedFeatures(result.backend)
           /\ \A f \in DOMAIN result.per_feature :
                  result.per_feature[f] =
                      Cardinality(PositionsContained(result.backend, f, result.node_ids))

C13_Witness ==
    /\ result.op = "count"
    /\ result.feature = "a"
    /\ result.backend = "u64"
    /\ Len(result.node_ids) = 2
    /\ result.node_ids[1] = result.node_ids[2]
    /\ result.num = 2

\* The sum of the cardinalities of the groups of a wrapper.
RECURSIVE SumOfGroupSizes(_)
SumOfGroupSizes(groups) ==
    IF DOMAIN groups = {} THEN 0
    ELSE LET h == CHOOSE x \in DOMAIN groups : TRUE
         IN  Cardinality(groups[h])
                 + SumOfGroupSizes([g \in DOMAIN groups \ {h} |-> groups[g]])

\* The size the loaded index of backend b holds for feature f, read off its
\* representation.
SizeHeld(b, f) ==
    IF b = "u64" THEN Len(u64_files[f]) \div 8
    ELSE IF roar_index.features[f].is_64bit
    THEN SumOfGroupSizes(roar_index.features[f].high_groups)
    ELSE Cardinality(roar_index.features[f].bitmap)

\* C14: get_size and the count of get_statistics of a loaded feature are the
\* number of distinct identifiers written for it: the number of 8-byte records
\* in the sorted-array backend, the cardinality of the bitmap (narrow mode) or
\* the sum of the group cardinalities (extended mode) in the bitmap backend.
C14_SizeIsNumberWritten ==
    /\ (result.op = "get_size" /\ ~result.raised) =>
           /\ result.num = Cardinality(Range(feature_ids[result.feature]))
           /\ result.num = SizeHeld(result.backend, result.feature)
    /\ result.op = "get_statistics" =>
           \A f \in DOMAIN result.per_feature :
               /\ result.per_feature[f].count = Cardinality(Range(feature_ids[f]))
               /\ result.per_feature[f].count = SizeHeld(result.backend, f)

C14_Witness ==
    /\ result.op = "get_size"
    /\ result.backend = "roar"
    /\ result.feature = "a"
    /\ ~result.raised
    /\ Cardinality(DOMAIN roar_index.features["a"].high_groups) = 2
    /\ result.num = 3

\* C15: a call of sort_and_unique_chunks or merge_sorted_files on no path at
\* all, and a call of sort_and_unique_chunks on chunk files that are all
\* zero-length, returns 0 and leaves a zero-length output file.
C15_EmptyInputGivesEmptyOutput ==
    (/\ pc = "done"
     /\ sort_path \in {"empty", "memory", "external", "merge"}
     /\ (given = <<>> \/ (sort_path # "merge" /\ ValuesOf(given) = {}))) =>
        /\ Exists(fs, output_path)
        /\ fs[output_path] = <<>>
        /\ ret = 0

C15_Witness ==
    /\ pc = "done"
    /\ sort_path = "memory"
    /\ Len(given) = MaxChunks
    /\ ValuesOf(given) = {}
    /\ Exists(fs, output_path)

\* C16: when sort_and_unique_chunks has returned, with remove_chunks no chunk
\* file it was given exists, without remove_chunks every chunk file exists with
\* the content it had at the call, and in both cases no intermediate sorted file
\* exists.
C16_ChunksAndIntermediatesAfterReturn ==
    (pc = "done" /\ sort_path \in {"empty", "memory", "external"}) =>
        /\ remove_chunks =>
               \A k \in DOMAIN chunk_paths : ~Exists(fs, chunk_paths[k])
        /\ ~remove_chunks =>
               \A k \in DOMAIN chunk_paths :
                   Exists(fs, chunk_paths[k]) /\ fs[chunk_paths[k]] = given[k]
        /\ \A k \in DOMAIN chunk_paths : ~Exists(fs, SortedPath(k - 1))

C16_Witness ==
    /\ pc = "done"
    /\ sort_path = "external"
    /\ ~remove_chunks
    /\ Len(chunk_paths) >= 2
    /\ Len(sorted_chunk_paths) >= 2
    /\ \E k \in DOMAIN chunk_paths : ~IsAscending(fs[chunk_paths[k]])

\* The identifiers the read blocks of the merge's iterators hold at one time.
HeldInBlocks == SumSeq([k \in 1 .. Len(input_paths) |-> iterators[k - 1].held])

\* The size of the largest chunk and the sum of the chunk sizes.
RECURSIVE LargestChunk(_)
LargestChunk(chunks) ==
    IF chunks = <<>> THEN 0
    ELSE LET rest == LargestChunk(Tail(chunks))
         IN  IF Len(Head(chunks)) >= rest THEN Len(Head(chunks)) ELSE rest

\* C17: on the external path the identifiers the merge holds in memory at one
\* time, in the read blocks of its sources and in its output batch, are at most
\* the largest single chunk plus the output batch, and the read blocks together
\* hold fewer identifiers than all chunks together.
C17_MergeHoldsOneChunkAtMost ==
    (pc = "merging" /\ sort_path = "external") =>
        /\ HeldInBlocks + Len(out_buffer) <= LargestChunk(given) + MERGE_BATCH
        /\ HeldInBlocks < Len(NpConcatenate(given))

\* The number of elements of the ascending array arr that are below x: the
\* leftmost position (from 0) whose value is at least x, Len(arr) if none is.
LeftmostAtLeast(arr, x) == Cardinality({k \in DOMAIN arr : arr[k] < x})

\* C18: SortedU64Index.contains looks up the leftmost position of the ascending
\* array whose value is at least the identifier and returns true exactly when
\* that position is inside the array and holds the identifier; an identifier
\* above every element (position = length), below every element, or any
\* identifier on the empty array gives false.
C18_LeftmostPositionDecides ==
    (result.op = "contains" /\ result.backend = "u64" /\ ~result.raised) =>
        LET arr == u64_index.features[result.feature]
            pos == LeftmostAtLeast(arr, result.node_id)
        IN  /\ IsAscending(arr)
            /\ SearchSorted(arr, result.node_id, 0, Len(arr)) = pos
            /\ result.flag <=> (pos < Len(arr) /\ arr[pos + 1] = result.node_id)
            /\ pos = Len(arr) => ~result.flag
            /\ (arr # <<>> /\ result.node_id < arr[1]) => ~result.flag

C18_Witness ==
    /\ result.op = "contains"
    /\ result.backend = "u64"
    /\ ~result.raised
    /\ Len(u64_index.features[result.feature]) >= 2
    /\ \A k \in DOMAIN u64_index.features[result.feature] :
           u64_index.features[result.feature][k] < result.node_id
    /\ ~result.flag

RECURSIVE GroupsInFile(_, _, _)
GroupsInFile(data, offset, n) ==
    IF n = 0 THEN <<>>
    ELSE LET size == FromBytesLE(Slice(data, offset + 4, 4))
         IN  <<[high |-> FromBytesLE(Slice(data, offset, 4)), size |-> size,
                bm |-> BitMapDeserialize(Slice(data, offset + 8, size)).bm]>>
                 \o GroupsInFile(data, offset + 8 + size, n - 1)

\* The groups gs of the file data partition the identifiers ids by high word.
GroupsPartition(data, gs, ids) ==
    /\ Len(gs) = Cardinality({ids[k] \div WordSize : k \in DOMAIN ids})
    /\ \A i, j \in DOMAIN gs : i # j => gs[i].high # gs[j].high
    /\ \A i \in DOMAIN gs : gs[i].bm # {}
    /\ \A k \in DOMAIN ids :
           \E i \in DOMAIN gs : /\ gs[i].high = ids[k] \div WordSize
                                /\ (ids[k] % WordSize) \in gs[i].bm
    /\ \A i \in DOMAIN gs :
           \A x \in gs[i].bm : (gs[i].high * WordSize + x) \in Range(ids)
    /\ 12 + SumSeq([i \in DOMAIN gs |-> 8 + gs[i].size]) = Len(data)

\* C20: in every extended-mode file RoaringWriter wrote, the declared group count
\* is the number of distinct high words, no two groups have the same high word,
\* no group is empty, the low word of every identifier is in the group of its
\* high word, a group holds the low words of no other identifiers, and headers
\* and group lengths add up to the file length.
C20_GroupsPartitionByHighWord ==
    \A f \in DOMAIN roar_files :
        HasRoar64Tag(roar_files[f]) =>
            GroupsPartition(roar_files[f],
                            GroupsInFile(roar_files[f], 12,
                                         FromBytesLE(Slice(roar_files[f], 8, 4))),
                            feature_ids[f])

C20_Witness ==
    /\ "a" \in DOMAIN roar_files
    /\ HasRoar64Tag(roar_files["a"])
    /\ Len(feature_ids["a"]) = 3
    /\ FromBytesLE(Slice(roar_files["a"], 8, 4)) = 2

\* C21: deserialize of an extended container with its groups in another order
\* gives the same mapping of high words to bitmaps as deserialize of the
\* container as written, hence the same contains answer for every identifier
\* and the same size.
C21_ReaderIgnoresGroupOrder ==
    damaged.kind = "reordered" =>
        LET w == Roaring64Deserialize(roar_files[damaged.feature])
        IN  /\ damaged.ok /\ w.ok
            /\ damaged.wrapper.is_64bit
            /\ damaged.wrapper.high_groups = w.high_groups
            /\ \A x \in U64 :
                   WrapperContains(damaged.wrapper, x) = WrapperContains(w, x)
            /\ WrapperLen(damaged.wrapper) = WrapperLen(w)

C21_Witness ==
    /\ damaged.kind = "reordered"
    /\ damaged.data # roar_files[damaged.feature]
    /\ Cardinality(DOMAIN damaged.wrapper.high_groups) = 2
    /\ Len(feature_ids[damaged.feature]) = 3

\* The step is a call of add on the buffer of feature f.
IsAdd(f) == total_count'[f] = total_count[f] + 1

C23_FlushWritesNewChunkVerbatim ==
    [][\A f \in Features :
          /\ (Flush(f) /\ buffer[f] # <<>>) =>
                 /\ ~Exists(fs, PartPath(f, chunk_count[f]))
                 /\ DOMAIN fs' = DOMAIN fs \cup {PartPath(f, chunk_count[f])}
                 /\ fs'[PartPath(f, chunk_count[f])] = buffer[f]
                 /\ \A p \in DOMAIN fs : fs'[p] = fs[p]
                 /\ chunk_count'[f] = chunk_count[f] + 1
                 /\ buffer'[f] = <<>>
                 /\ total_count' = total_count
          /\ (Flush(f) /\ buffer[f] = <<>>) =>
                 /\ fs' = fs
                 /\ chunk_count' = chunk_count
                 /\ total_count' = total_count
          /\ chunk_count'[f] \in {chunk_count[f], chunk_count[f] + 1}
          /\ chunk_count'[f] = chunk_count[f] + 1 =>
                 ~Exists(fs, PartPath(f, chunk_count[f]))]_vars

C23_Witness ==
    \E f \in Features :
        /\ flush_threshold = 3
        /\ chunk_count[f] = 2
        /\ buffer[f] = <<>>
        /\ Exists(fs, PartPath(f, 0))
        /\ Exists(fs, PartPath(f, 1))
        /\ Len(fs[PartPath(f, 1)]) = 2
        /\ HasDuplicateInside(fs[PartPath(f, 1)])
        /\ ~IsAscending(fs[PartPath(f, 0)])

\* C24: get_chunk_paths on a buffer never finalized leaves the buffer empty and
\* returns the paths of the chunks 0 .. chunk_count-1 in this order, each an
\* existing non-empty file; called again with no add in between it returns the
\* same list and changes no file.
C24_ChunkPathsNameTheChunks ==
    [][\A f \in Features :
          (GetChunkPaths(f) /\ finalize_calls[f] = 0) =>
              /\ buffer'[f] = <<>>
              /\ Len(paths_ret') = chunk_count'[f]
              /\ \A k \in DOMAIN paths_ret' :
                     /\ paths_ret'[k] = PartPath(f, k - 1)
                     /\ Exists(fs', paths_ret'[k])
                     /\ fs'[paths_ret'[k]] # <<>>
              /\ NpConcatenate([k \in DOMAIN paths_ret' |-> fs'[paths_ret'[k]]])
                     = added[f]
              /\ (paths_ret # <<>> /\ paths_ret[1] = PartPath(f, 0)) =>
                     (paths_ret' = paths_ret /\ fs' = fs)]_vars

C24_Witness ==
    \E f \in Features :
        /\ finalize_calls[f] = 0
        /\ Len(paths_ret) = 3
        /\ paths_ret[3] = PartPath(f, 2)
        /\ flush_threshold = 2
        /\ Len(fs[paths_ret[3]]) = 1

\* The identifiers added to the buffer of f since its previous finalize returned.
AddedSince(f) == SubSeq(added[f], taken[f] + 1, Len(added[f]))

\* C28: every finalize call, the first or a later one on the same buffer, writes
\* the canonical sequence of exactly the identifiers added since the previous
\* finalize of that buffer and returns their number; with none added it writes
\* an empty file and returns 0.
C28_FinalizeConsumesWhatItReads ==
    \A f \in Features :
        (pc = "done" /\ finalizing = f) =>
            /\ Exists(fs, OutPath(f))
            /\ IsCanonicalOf(fs[OutPath(f)], Range(AddedSince(f)))
            /\ ret = Cardinality(Range(AddedSince(f)))
            /\ \A k \in 1 .. chunk_count[f] : ~Exists(fs, PartPath(f, k - 1))

C28_Witness ==
    \E f \in Features :
        /\ pc = "done"
        /\ finalizing = f
        /\ finalize_calls[f] = 2
        /\ taken[f] = 2
        /\ Range(SubSeq(added[f], 1, 2)) = {1}
        /\ AddedSince(f) = <<0, 0>>
        /\ fs[OutPath(f)] = <<0>>
        /\ chunk_count[f] >= 2

C28_WitnessNoneAdded ==
    \E f \in Features :
        /\ pc = "done"
        /\ finalizing = f
        /\ finalize_calls[f] = 2
        /\ taken[f] >= 1
        /\ AddedSince(f) = <<>>
        /\ fs[OutPath(f)] = <<>>
        /\ ret = 0

\* The call ran the k-way merge loop (two input files or more).
RanMergeLoop == sort_path \in {"merge", "external"} /\ Len(input_paths) >= 2

\* C25: at every head of the merge loop the output file followed by the pending
\* batch is the sequence of the values emitted so far, count is its length and
\* the batch is shorter than the batch size; when the function has returned the
\* output file alone is that sequence.
C25_BatchesLoseNothing ==
    /\ (pc = "merging") =>
           /\ fs[output_path] \o out_buffer = emitted
           /\ Len(out_buffer) < MERGE_BATCH
           /\ Len(fs[output_path]) % MERGE_BATCH = 0
           /\ count = Len(emitted)
    /\ (pc = "done" /\ RanMergeLoop) =>
           /\ fs[output_path] = emitted
           /\ ret = Len(emitted)

C25_Witness ==
    /\ pc = "done"
    /\ RanMergeLoop
    /\ Len(emitted) = MERGE_BATCH + 1
    /\ out_buffer # <<>>
    /\ \E k \in DOMAIN given : HasDuplicateInside(given[k])

\* The sources of the merge, numbered from 0 as in the code.
Sources == 0 .. Len(input_paths) - 1

\* The records of source k.
SourceData(k) == read_ids_from_file(fs, input_paths[k + 1])

\* The number of values next() has returned for source k.
Pulled(k) == iterators[k].off - Len(iterators[k].block)

InQueue(k) == \E e \in heap : e[2] = k

\* The number of values of source k that were popped from the queue.
Consumed(k) == Pulled(k) - (IF InQueue(k) THEN 1 ELSE 0)

SourcesAscending == \A k \in Sources : IsAscending(SourceData(k))

\* At a head of the merge loop: one queue entry per source at most, each the
\* (current value, source index) of its source; a source without entry has been
\* consumed to its end; on ascending sources the least entry is no larger than
\* any value not yet consumed, and no source of smaller index still has a value
\* equal to it.
QueueDiscipline ==
    /\ \A e \in heap :
           /\ e[2] \in Sources
           /\ Pulled(e[2]) \in 1 .. Len(SourceData(e[2]))
           /\ e[1] = SourceData(e[2])[Pulled(e[2])]
    /\ \A e, o \in heap : e[2] = o[2] => e = o
    /\ \A k \in Sources : ~InQueue(k) => Consumed(k) = Len(SourceData(k))
    /\ (SourcesAscending /\ heap # {}) =>
           LET top == HeapMin(heap)
           IN  \A k \in Sources :
                   \A j \in Consumed(k) + 1 .. Len(SourceData(k)) :
                       /\ top[1] <= SourceData(k)[j]
                       /\ SourceData(k)[j] = top[1] => top[2] <= k

\* C26: the queue discipline holds at every head of the merge loop; an iteration
\* consumes one value of the popped source and none of another; the loop ends,
\* and when it has ended every value of every source has been consumed.
C26_QueueDiscipline ==
    /\ [](pc = "merging" => QueueDiscipline)
    /\ [][(pc = "merging" /\ pc' = "merging") =>
             \E k \in Sources :
                 /\ heap # {} /\ k = HeapMin(heap)[2]
                 /\ Consumed(k)' = Consumed(k) + 1
                 /\ \A o \in Sources \ {k} : Consumed(o)' = Consumed(o)]_vars
    /\ [](pc = "merging" => <>(pc = "done"))
    /\ []((pc = "done" /\ RanMergeLoop /\ sort_path = "merge") =>
             \A k \in Sources : Consumed(k) = Len(given[k + 1]))

C26_Witness ==
    /\ pc = "merging"
    /\ SourcesAscending
    /\ Len(input_paths) = 2
    /\ heap = {<<1, 0>>, <<1, 1>>}
    /\ Consumed(0) = 1
    /\ SourceData(0) = <<0, 1, 1>>

\* The node events that match a predicate of at least one feature.
MatchingEvents ==
    {k \in DOMAIN events : \E f \in FeatureNames : Predicate(f, events[k].tags)}

\* The ids of the node events that match the predicate of f, in event order.
IdsFor(f) ==
    LET sel == SelectSeq(events, LAMBDA e : Predicate(f, e.tags))
    IN  [k \in DOMAIN sel |-> sel[k].id]

\* What the buffer of f holds: its chunk files in order, then self.buffer.
Held(f) ==
    NpConcatenate([k \in 1 .. chunk_count[f] |-> fs[PartPath(f, k - 1)]]) \o buffer[f]

ScanAccounting ==
    /\ nodes_processed = Len(events)
    /\ nodes_matched = Cardinality(MatchingEvents)
    /\ nodes_matched <= nodes_processed
    /\ \A f \in FeatureNames :
           /\ added[f] = IdsFor(f)
           /\ total_count[f] = Len(IdsFor(f))
           /\ total_count[f] <= nodes_matched
           /\ build_pc = "scan" => Held(f) = IdsFor(f)
    /\ build_pc = "features" =>
           stats = [nodes_processed |-> Len(events),
                    nodes_matched |-> Cardinality(MatchingEvents),
                    feature_counts |-> [f \in FeatureNames |-> Len(IdsFor(f))]]

\* C27: during and after a scan nodes_processed is the number of node events,
\* nodes_matched the number of events matching at least one feature predicate,
\* every buffer was given exactly the ids of the events matching its predicate,
\* once each and in event order, so nodes_matched <= nodes_processed and every
\* total_count <= nodes_matched; an event without tags changes nodes_processed
\* alone.
C27_ScanAccounting ==
    /\ [](build_pc # "none" => ScanAccounting)
    /\ [][(nodes_processed' = nodes_processed + 1
             /\ events'[Len(events')].tags = {}) =>
               UNCHANGED <<fs, buffer, chunk_count, total_count, nodes_matched>>]_vars

C27_Witness ==
    /\ build_pc = "scan"
    /\ nodes_processed = 3
    /\ nodes_matched = 2
    /\ total_count["signals"] = 1
    /\ total_count["stops"] = 2
    /\ events[1].tags = {}
    /\ events[3].tags = {<<"highway", "stop">>, <<"crossing", "traffic_signals">>}

\* The chunk numbers and sorted-file numbers a build can reach.
FileNumbers == 0 .. MaxNodes

\* The file names of the temp directory never coincide: chunk files of two
\* features, or of two numbers, are different files, and no chunk file is an
\* intermediate sorted file or the sorted file of a feature.
TempNamesDistinct ==
    /\ \A f, g \in FeatureNames, m, n \in FileNumbers :
           PartPath(f, m) = PartPath(g, n) => (f = g /\ m = n)
    /\ \A f, g \in FeatureNames, m, n \in FileNumbers :
           /\ PartPath(f, m) # SortedPath(n)
           /\ PartPath(f, m) # FeatureSortedPath(g)
           /\ SortedPath(n) # FeatureSortedPath(g)
    /\ \A f, g \in FeatureNames :
           FeatureSortedPath(f) = FeatureSortedPath(g) => f = g

\* The feature whose turn it is in the loop of build.
CurrentFeature == FeatureSpecs[feature_i]

\* C29: in a build of several features in one temp directory, the sorted file
\* of each feature and the index files written from it hold exactly the
\* canonical sequence of the ids added to that feature's buffer; every chunk
\* file holds ids of its own feature only, every intermediate sorted file ids
\* of the feature being sorted only; and the file names of different features
\* are different.
C29_FeaturesStayApart ==
    build_pc = "features" =>
        /\ TempNamesDistinct
        /\ \A f \in FeatureNames, n \in FileNumbers :
               Exists(fs, PartPath(f, n)) =>
                   Range(fs[PartPath(f, n)]) \subseteq Range(added[f])
        /\ \A n \in FileNumbers :
               Exists(fs, SortedPath(n)) =>
                   /\ feature_i \in DOMAIN FeatureSpecs
                   /\ Range(fs[SortedPath(n)]) \subseteq Range(added[CurrentFeature])
        /\ pc = "done" =>
               /\ IsCanonicalOf(fs[FeatureSortedPath(CurrentFeature)],
                                 Range(added[CurrentFeature]))
               /\ ret = Cardinality(Range(added[CurrentFeature]))
        /\ \A f \in DOMAIN u64_files :
               u64_files[f] = SortedU64WriterWrite(SortedSeqOf(Range(added[f])))
        /\ \A f \in DOMAIN roar_files :
               roar_files[f] = RoaringWriterWrite(SortedSeqOf(Range(added[f])))

C29_Witness ==
    /\ build_pc = "features"
    /\ feature_i = 3
    /\ flush_threshold = 2
    /\ added["signals"] = <<0, 1, 0>>
    /\ added["stops"] = <<1>>
    /\ u64_files["stops"] = SortedU64WriterWrite(<<1>>)
    /\ u64_files["signals"] = SortedU64WriterWrite(<<0, 1>>)

\* The temp files a build creates: chunk files, intermediate sorted files and
\* the sorted file of each feature.
BuildTempFiles ==
    {PartPath(f, n) : f \in FeatureNames, n \in FileNumbers}
        \cup {SortedPath(n) : n \in FileNumbers}
        \cup {FeatureSortedPath(f) : f \in FeatureNames}

\* C30: when build has ended normally none of its temp files exists, in a temp
\* directory it was given as in one it created; a temp directory it created is
\* gone when build has ended, normally or by an exception; a temp directory it
\* was given exists at all times.
C30_BuildCleansUp ==
    /\ DOMAIN fs \subseteq BuildTempFiles
    /\ build_pc = "finished" => DOMAIN fs \cap BuildTempFiles = {}
    /\ (~tmp_supplied /\ build_pc \in {"finished", "failed"}) =>
           (~tmp_exists /\ DOMAIN fs = {})
    /\ (~tmp_supplied /\ build_pc \in {"scan", "features"}) => tmp_exists
    /\ tmp_supplied => tmp_exists

C30_Witness ==
    /\ build_pc = "finished"
    /\ tmp_supplied
    /\ tmp_exists
    /\ flush_threshold = 1
    /\ Len(added["signals"]) = 3
    /\ Len(added["stops"]) = 1
    /\ chunk_count["signals"] = 3
    /\ "signals" \in DOMAIN u64_files

C30_WitnessFailure ==
    /\ build_pc = "failed"
    /\ ~tmp_supplied
    /\ ~tmp_exists
    /\ feature_i = 2
    /\ chunk_count["stops"] = 2

====
